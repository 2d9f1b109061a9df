------------------------------ MODULE MCViewEdit ------------------------------
(* Small instances of ViewEdit. *)
EXTENDS ViewEdit

CONSTANT r1

Valid(owner, maps) == File("sound", owner, maps)
Entry(resource, owner) == [resource |-> resource, owner |-> owner]

(* "north" has two valid files with different owners, one of them with an   *)
(* entry of an owner the row check refuses, or the second is not JSON.      *)
First == Valid("o1", [k1 |-> Entry(r1, "")])
Second == Valid("o2", [k1 |-> Entry(r1, "o1"), k2 |-> Entry(r1, BadOwner)])
TwoFiles == {[north |-> [a |-> First, b |-> file],
              south |-> [a |-> Valid("o2", [k2 |-> Entry(r1, "")]), b |-> Absent]] :
               file \in {Second, Broken}}
(* Or each directory has one file, that of "south" flawed, with a malformed *)
(* or a missing owner at the root, not JSON, or absent after all.           *)
SouthFiles == {File("flawed", "o1", [k1 |-> Entry(r1, "")]),
               File("sound", BadOwner, [k1 |-> Entry(r1, "")]),
               File("sound", Empty, [k1 |-> Entry(r1, "")]), Broken, Absent}
OneFileEach == {[north |-> [a |-> First, b |-> Absent], south |-> [a |-> file, b |-> Absent]] :
                  file \in SouthFiles}
TwoDirs == TwoFiles \union OneFileEach
NoChange == {}
Outside == {Valid("o1", [k2 |-> Entry(r1, "o2")])}
=============================================================================
