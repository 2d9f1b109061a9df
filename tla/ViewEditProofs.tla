---------------------------- MODULE ViewEditProofs ----------------------------
(***************************************************************************)
(* Theorems about the view-and-edit page, for every set of directories,    *)
(* files, keys, resources and owners and every bound: a row marked as saved *)
(* is in the selected file, and a save that writes stores the whole table.  *)
(***************************************************************************)
EXTENDS ViewEdit, SequenceTheorems, FiniteSetTheorems, TLAPS

IsSequence(s) == \E S : s \in Seq(S)

(* A list, among the signals of whatever else the thread does.              *)
ListsNames(s) ==
  s.worker.kind = "list" =>
    s.worker.arg \in Dirs /\ (s.signal = "result" => s.value \in SUBSET Names)

Sources == {file \in Files : Readable(file)}

DiskTypes ==
  disk \in [Dirs -> [Names -> Files]] /\ disturbed \subseteq Dirs \X Names

ListTypes ==
  /\ configDir \in Dirs /\ listedDir \in Dirs /\ unheard \subseteq Dirs
  /\ configFiles \subseteq Names
  /\ selected \in configFiles \union {NoFile}

TableTypes ==
  /\ jsonSource \in Sources \union {NoSource}
  /\ rows \in Seq(Rows)
  /\ view \in {"notification", "table"} /\ enabled \in BOOLEAN
  /\ notice \in {"none", "error", "saved"}

WorkerTypes ==
  /\ IsSequence(runQueue) /\ \A w \in Range(runQueue) : w.kind = "list" => w.arg \in Dirs
  /\ (running # <<>> /\ running[1].kind = "list") =>
       running[1].arg \in Dirs /\ running[2] \in SUBSET Names
  /\ IsSequence(posted) /\ \A s \in Range(posted) : ListsNames(s)

UsedTypes ==
  used \in [edits : 0 .. MaxEdits, searches : 0 .. MaxSearches, outside : 0 .. MaxOutside]

Types == DiskTypes /\ ListTypes /\ TableTypes /\ WorkerTypes /\ UsedTypes

(* What a save is compared with is what the selected file holds.            *)
SourceMatches ==
  LET file == disk[configDir][selected]
  IN (/\ selected # NoFile /\ <<configDir, selected>> \notin disturbed
      /\ Readable(file) /\ jsonSource # NoSource) => jsonSource = file

SavedRows(rs) == {i \in DOMAIN rs : rs[i].status = "Success"}

(* No two rows are marked as saved under one key.                           *)
KeysDistinct(rs) == \A i, j \in SavedRows(rs) : rs[i].key = rs[j].key => i = j

(* The inductive invariant.                                                 *)
Kept == SourceMatches /\ KeysDistinct(rows) /\ SuccessRowsStored
PageInv == Types /\ Kept

-----------------------------------------------------------------------------
(* Sequences and files. *)

LEMMA Defined ==
  /\ IsFiniteSet(Keys) /\ NoFile \notin Names
  /\ Empty \notin Keys \union Owners /\ BadOwner \notin Owners
  /\ NoResource \notin Resources /\ ConfiguredOwner \in Owners
  /\ InitialDisks \subseteq [Dirs -> [Names -> Files]] /\ OutsideFiles \subseteq Files
  /\ MaxEdits \in Nat /\ MaxSearches \in Nat /\ MaxOutside \in Nat
BY ViewEditAssumption

(* What is in a sequence that grows or loses its first element.             *)
LEMMA RangeAppended ==
  ASSUME NEW s, NEW e, IsSequence(s)
  PROVE  IsSequence(Append(s, e)) /\ Range(Append(s, e)) = Range(s) \union {e}
<1>1. PICK S : s \in Seq(S)
  BY DEF IsSequence
<1>2. s \in Seq(S \union {e}) /\ e \in S \union {e}
  BY <1>1
<1>3. /\ Append(s, e) \in Seq(S \union {e}) /\ Len(s) \in Nat /\ DOMAIN s = 1 .. Len(s)
      /\ DOMAIN Append(s, e) = 1 .. Len(s) + 1
      /\ \A i \in 1 .. Len(s) : Append(s, e)[i] = s[i]
      /\ Append(s, e)[Len(s) + 1] = e
  BY <1>2, AppendProperties, LenProperties
<1> QED BY <1>3 DEF IsSequence, Range

LEMMA RangeOfTail ==
  ASSUME NEW s, IsSequence(s), s # <<>>
  PROVE  /\ IsSequence(Tail(s)) /\ Head(s) \in Range(s)
         /\ Range(Tail(s)) \subseteq Range(s)
<1>1. PICK S : s \in Seq(S)
  BY DEF IsSequence
<1>2. /\ Tail(s) \in Seq(S) /\ Len(s) \in Nat \ {0} /\ DOMAIN s = 1 .. Len(s)
      /\ DOMAIN Tail(s) = 1 .. Len(s) - 1 /\ Head(s) = s[1]
      /\ \A i \in 1 .. Len(s) - 1 : Tail(s)[i] = s[i + 1]
  BY <1>1, HeadTailProperties, LenProperties, EmptySeq
<1> QED BY <1>2 DEF IsSequence, Range

LEMMA RangeConcatenated ==
  ASSUME NEW s, NEW t, IsSequence(s), IsSequence(t)
  PROVE  IsSequence(s \o t) /\ Range(s \o t) = Range(s) \union Range(t)
<1>1. PICK S, T : s \in Seq(S) /\ t \in Seq(T)
  BY DEF IsSequence
<1>2. s \in Seq(S \union T) /\ t \in Seq(S \union T)
  BY <1>1
<1> DEFINE n == Len(s)
           m == Len(t)
           u == s \o t
<1>3. /\ u \in Seq(S \union T) /\ n \in Nat /\ m \in Nat
      /\ DOMAIN s = 1 .. n /\ DOMAIN t = 1 .. m /\ DOMAIN u = 1 .. n + m
      /\ \A i \in 1 .. n + m : u[i] = IF i <= n THEN s[i] ELSE t[i - n]
  BY <1>2, ConcatProperties, LenProperties
<1> HIDE DEF n, m, u
<1>4. \A i \in 1 .. n : i \in DOMAIN u /\ u[i] = s[i]
  BY <1>3
<1>5. \A i \in 1 .. m : n + i \in DOMAIN u /\ u[n + i] = t[i]
  BY <1>3
<1>6. \A i \in 1 .. n + m : (i \in 1 .. n /\ u[i] = s[i]) \/ (i - n \in 1 .. m /\ u[i] = t[i - n])
  BY <1>3
<1>7. Range(u) = Range(s) \union Range(t)
  <2>1. ASSUME NEW x \in Range(u) PROVE x \in Range(s) \union Range(t)
    <3>1. PICK i \in 1 .. n + m : x = u[i]
      BY <1>3, <2>1 DEF Range
    <3> QED BY <1>3, <1>6, <3>1 DEF Range
  <2>2. Range(s) \subseteq Range(u)
    BY <1>3, <1>4 DEF Range
  <2>3. Range(t) \subseteq Range(u)
    BY <1>3, <1>5 DEF Range
  <2> QED BY <2>1, <2>2, <2>3
<1> QED BY <1>3, <1>7 DEF IsSequence, u

(* What a worker's end adds to a queue of signals.                          *)
LEMMA RangeEmitted ==
  ASSUME NEW w, NEW value
  PROVE  /\ IsSequence(Outcome(w, value)) /\ IsSequence(Raised(w))
         /\ Range(Outcome(w, value)) =
              {Signal("result", w, value), Signal("finished", w, <<>>)}
         /\ Range(Raised(w)) = {Signal("finished", w, <<>>)}
<1> DEFINE r == Signal("result", w, value)
           f == Signal("finished", w, <<>>)
<1>1. <<r, f>> \in Seq({r, f}) /\ <<f>> \in Seq({f})
  OBVIOUS
<1>2. Range(<<r, f>>) = {r, f} /\ Range(<<f>>) = {f}
  BY DEF Range
<1> QED BY <1>1, <1>2 DEF IsSequence, Outcome, Raised

LEMMA BadOwnerNotEmpty == BadOwner # Empty
BY Zenon DEF BadOwner, Empty

LEMMA SetToSeqElements ==
  ASSUME NEW S, IsFiniteSet(S)
  PROVE  /\ Cardinality(S) \in Nat
         /\ SetToSeq(S) \in [1 .. Cardinality(S) -> S]
         /\ \A i, j \in 1 .. Cardinality(S) : SetToSeq(S)[i] = SetToSeq(S)[j] => i = j
<1> DEFINE n == Cardinality(S)
<1>1. n \in Nat /\ ExistsBijection(1 .. n, S)
  BY FS_CardinalityType
<1>2. \E f \in [1 .. n -> S] : IsInjective(f)
  BY <1>1 DEF ExistsBijection, Bijection, Injection
<1>3. SetToSeq(S) \in [1 .. n -> S] /\ IsInjective(SetToSeq(S))
  BY <1>2, Zenon DEF SetToSeq
<1> HIDE DEF n
<1>4. \A i, j \in 1 .. n : SetToSeq(S)[i] = SetToSeq(S)[j] => i = j
  BY <1>3 DEF IsInjective
<1> QED BY <1>1, <1>3, <1>4 DEF n

(* What a file that can be read holds. *)
LEMMA SourceElements ==
  ASSUME NEW file \in Sources
  PROVE  /\ file \in Files /\ file # NoSource /\ Readable(file)
         /\ file = File(file.kind, file.default, file.maps)
         /\ file.default \in Owners \union {BadOwner, Empty} /\ file.maps \in Mappings
         /\ DOMAIN file.maps \subseteq Keys /\ IsFiniteSet(DOMAIN file.maps)
         /\ \A k \in DOMAIN file.maps :
              /\ file.maps[k] \in Entries /\ file.maps[k].resource \in Resources
              /\ file.default # Empty => Resolved(file, k) \in Owners \union {BadOwner}
<1>1. file.kind \in {"sound", "flawed"} /\ file \in Files
  BY DEF Sources, Readable
<1>2. PICK kind \in {"sound", "flawed"}, o \in Owners \union {BadOwner, Empty},
           m \in Mappings : file = File(kind, o, m)
  BY <1>1 DEF Files, Absent, Broken, File
<1>3. file.kind = kind /\ file.default = o /\ file.maps = m
  BY <1>2 DEF File
<1>4. PICK K \in SUBSET Keys : m \in [K -> Entries]
  BY <1>2 DEF Mappings
<1>5. file # NoSource
  BY <1>1 DEF NoSource, File
<1>6. IsFiniteSet(K)
  BY <1>4, Defined, FS_Subset
<1>7. ASSUME NEW k \in DOMAIN m
      PROVE  /\ m[k] \in Entries /\ m[k].resource \in Resources
             /\ m[k].owner # Empty => m[k].owner \in Owners \union {BadOwner}
  BY <1>4 DEF Entries
<1>8. \A k \in DOMAIN m : file.default # Empty => Resolved(file, k) \in Owners \union {BadOwner}
  BY <1>3, <1>7 DEF Resolved
<1> QED BY <1>1, <1>2, <1>3, <1>4, <1>5, <1>6, <1>7, <1>8 DEF Sources

(* The table of a file has one saved row for each key.                      *)
LEMMA FromJsonRows ==
  ASSUME NEW file \in Sources, Accepted(file)
  PROVE  /\ FromJson(file) \in Seq(Rows)
         /\ \A i \in DOMAIN FromJson(file) :
              LET row == FromJson(file)[i]
              IN /\ row.key \in DOMAIN file.maps
                 /\ row.resource = file.maps[row.key].resource
                 /\ row.owner = Resolved(file, row.key)
         /\ KeysDistinct(FromJson(file))
<1> DEFINE keys == SetToSeq(DOMAIN file.maps)
           n == Cardinality(DOMAIN file.maps)
           r(i) == Row(keys[i], file.maps[keys[i]].resource, Resolved(file, keys[i]), "Success")
<1>1. /\ n \in Nat /\ keys \in [1 .. n -> DOMAIN file.maps]
      /\ \A i, j \in 1 .. n : keys[i] = keys[j] => i = j
  BY SourceElements, SetToSeqElements
<1>2. FromJson(file) = [i \in 1 .. n |-> r(i)]
  BY <1>1 DEF FromJson
<1> HIDE DEF keys, n
<1>3. ASSUME NEW i \in 1 .. n
      PROVE  /\ keys[i] \in DOMAIN file.maps
             /\ r(i) \in Rows
             /\ r(i).key = keys[i] /\ r(i).resource = file.maps[keys[i]].resource
             /\ r(i).owner = Resolved(file, keys[i])
  <2>1. keys[i] \in DOMAIN file.maps
    BY <1>1
  <2>2. /\ keys[i] \in Keys /\ file.maps[keys[i]].resource \in Resources
        /\ Resolved(file, keys[i]) \in Owners \union {BadOwner}
    BY <2>1, SourceElements, Defined DEF Accepted
  <2> QED BY <2>1, <2>2 DEF Row, Rows, Statuses
<1> HIDE DEF r
<1>4. FromJson(file) \in Seq(Rows) /\ DOMAIN FromJson(file) = 1 .. n
  BY <1>1, <1>2, <1>3
<1>5. KeysDistinct(FromJson(file))
  BY <1>1, <1>2, <1>3, <1>4 DEF KeysDistinct, SavedRows
<1> QED BY <1>2, <1>3, <1>4, <1>5

LEMMA OverrideRows ==
  ASSUME NEW rs \in Seq(Rows), NEW S, NEW status \in Statuses
  PROVE  /\ Override(rs, S, status) \in Seq(Rows)
         /\ DOMAIN Override(rs, S, status) = DOMAIN rs
         /\ \A i \in DOMAIN rs :
              LET row == Override(rs, S, status)[i]
              IN /\ row.key = rs[i].key /\ row.resource = rs[i].resource
                 /\ row.owner = rs[i].owner
                 /\ row.status = IF i \in S THEN status ELSE rs[i].status
<1> DEFINE o(i) == IF i \in S THEN [rs[i] EXCEPT !.status = status] ELSE rs[i]
<1>1. DOMAIN rs = 1 .. Len(rs) /\ Len(rs) \in Nat /\ \A i \in DOMAIN rs : rs[i] \in Rows
  BY LenProperties, ElementOfSeq
<1>2. Override(rs, S, status) = [i \in DOMAIN rs |-> o(i)]
  BY DEF Override
<1>3. ASSUME NEW i \in DOMAIN rs
      PROVE  /\ o(i) \in Rows /\ o(i).key = rs[i].key /\ o(i).resource = rs[i].resource
             /\ o(i).owner = rs[i].owner
             /\ o(i).status = IF i \in S THEN status ELSE rs[i].status
  BY <1>1 DEF Rows
<1> HIDE DEF o
<1> QED BY <1>1, <1>2, <1>3

(* Rows that pass have keys of their own. *)
LEMMA ValidRows ==
  ASSUME NEW rs \in Seq(Rows), InvalidRows(rs) = {}, KeysDistinct(rs)
  PROVE  /\ \A i \in DOMAIN rs :
              rs[i].key \in Keys /\ rs[i].resource \in Resources /\ rs[i].owner \in Owners
         /\ \A i, j \in DOMAIN rs : rs[i].key = rs[j].key => i = j
<1>1. \A i \in DOMAIN rs : rs[i] \in Rows
  BY LenProperties, ElementOfSeq
<1>2. ASSUME NEW i \in DOMAIN rs
      PROVE  /\ rs[i].key # Empty /\ rs[i].resource # NoResource /\ rs[i].owner # BadOwner
             /\ \/ rs[i].status = "Success"
                \/ \A j \in DOMAIN rs : rs[i].key = rs[j].key => i = j
  BY Zenon DEF InvalidRows
<1>3. ASSUME NEW i \in DOMAIN rs, NEW j \in DOMAIN rs, rs[i].key = rs[j].key PROVE i = j
  BY <1>2, <1>3 DEF KeysDistinct, SavedRows
<1>4. ASSUME NEW i \in DOMAIN rs
      PROVE  rs[i].key \in Keys /\ rs[i].resource \in Resources /\ rs[i].owner \in Owners
  BY <1>1, <1>2 DEF Rows
<1> QED BY <1>3, <1>4

(* What such rows convert to holds each of them, and nothing else.          *)
LEMMA ConvertedRows ==
  ASSUME NEW rs \in Seq(Rows), InvalidRows(rs) = {}, KeysDistinct(rs),
         NEW source \in Sources, source.default # Empty
  PROVE  LET json == ToJson(rs, source)
         IN /\ json \in Sources /\ (Accepted(json) \/ json.default = BadOwner)
            /\ json.default = source.default
            /\ Cardinality(DOMAIN json.maps) = Len(rs)
            /\ \A i \in DOMAIN rs :
                 /\ rs[i].key \in DOMAIN json.maps
                 /\ rs[i].resource = json.maps[rs[i].key].resource
                 /\ rs[i].owner = Resolved(json, rs[i].key)
<1> DEFINE Latest(k) == CHOOSE i \in DOMAIN rs :
                        rs[i].key = k /\ \A j \in DOMAIN rs : rs[j].key = k => j <= i
           Abbreviated(o) == IF o = source.default THEN Empty ELSE o
           K == {rs[i].key : i \in DOMAIN rs}
           e(k) == [resource |-> rs[Latest(k)].resource, owner |-> Abbreviated(rs[Latest(k)].owner)]
           m == [k \in K |-> e(k)]
           json == ToJson(rs, source)
<1>1. /\ \A i \in DOMAIN rs :
           rs[i].key \in Keys /\ rs[i].resource \in Resources /\ rs[i].owner \in Owners
      /\ \A i, j \in DOMAIN rs : rs[i].key = rs[j].key => i = j
  BY ValidRows
<1>2. DOMAIN rs = 1 .. Len(rs) /\ Len(rs) \in Nat
  BY LenProperties
<1>3. source.default \in Owners \union {BadOwner}
  BY SourceElements
<1>4. json = File("sound", source.default, m)
  BY Zenon DEF ToJson
<1>5. json.kind = "sound" /\ json.default = source.default /\ json.maps = m
  BY <1>4 DEF File
<1>6. ASSUME NEW i \in DOMAIN rs PROVE Latest(rs[i].key) = i
  <2>1. \A j \in DOMAIN rs : rs[j].key = rs[i].key => j <= i
    BY <1>1, <1>2
  <2>2. Latest(rs[i].key) \in DOMAIN rs /\ rs[Latest(rs[i].key)].key = rs[i].key
    BY <2>1, Zenon
  <2> HIDE DEF Latest
  <2> QED BY <1>1, <2>2
<1> HIDE DEF Latest
<1>7. ASSUME NEW i \in DOMAIN rs
      PROVE  /\ e(rs[i].key) \in Entries
             /\ e(rs[i].key).resource = rs[i].resource
             /\ e(rs[i].key).owner = Abbreviated(rs[i].owner)
  <2>1. e(rs[i].key) = [resource |-> rs[i].resource, owner |-> Abbreviated(rs[i].owner)]
    BY <1>6
  <2>2. Abbreviated(rs[i].owner) \in Owners \union {Empty, BadOwner}
    BY <1>1
  <2> HIDE DEF Abbreviated, e
  <2> QED BY <1>1, <2>1, <2>2 DEF Entries
<1> HIDE DEF e
<1>8. m \in Mappings
  <2>1. K \in SUBSET Keys /\ m \in [K -> Entries]
    BY <1>1, <1>7
  <2> QED BY <2>1 DEF Mappings
<1>9. json \in Sources
  <2> HIDE DEF m, json
  <2>1. json \in Files
    <3>1. "sound" \in {"sound", "flawed"} /\ source.default \in Owners \union {BadOwner, Empty}
      BY <1>3
    <3>2. \A kind \in {"sound", "flawed"}, o \in Owners \union {BadOwner, Empty}, p \in Mappings :
            File(kind, o, p) \in Files
      BY DEF Files
    <3> QED BY <1>4, <1>8, <3>1, <3>2
  <2> QED BY <1>5, <2>1 DEF Sources, Readable
<1>10. Cardinality(K) = Len(rs)
  <2>1. [i \in 1 .. Len(rs) |-> rs[i].key] \in Bijection(1 .. Len(rs), K)
    BY <1>1, <1>2 DEF Bijection, Injection, Surjection, IsInjective
  <2>2. IsFiniteSet(1 .. Len(rs)) /\ Cardinality(1 .. Len(rs)) = Len(rs)
    BY <1>2, FS_Interval
  <2>3. ExistsBijection(1 .. Len(rs), K)
    BY <2>1 DEF ExistsBijection
  <2> HIDE DEF K
  <2> QED BY <2>2, <2>3, FS_Bijection
<1>11. ASSUME NEW i \in DOMAIN rs
       PROVE  /\ rs[i].key \in DOMAIN json.maps
              /\ rs[i].resource = json.maps[rs[i].key].resource
              /\ rs[i].owner = Resolved(json, rs[i].key)
  <2>1. rs[i].key \in K /\ m[rs[i].key] = e(rs[i].key) /\ DOMAIN m = K
    OBVIOUS
  <2>2. rs[i].owner # Empty
    BY <1>1, Defined
  <2> HIDE DEF json, m, K
  <2>3. Resolved(json, rs[i].key) = rs[i].owner
    BY <1>5, <1>7, <2>1, <2>2 DEF Resolved
  <2>4. json.maps = m /\ rs[i].resource = e(rs[i].key).resource
    BY <1>5, <1>7
  <2> QED BY <2>1, <2>3, <2>4
<1> HIDE DEF K, json
<1>12. DOMAIN json.maps = K
  BY <1>5
<1>13. Accepted(json) \/ json.default = BadOwner
  BY <1>3, <1>5 DEF Accepted
<1> QED BY <1>5, <1>9, <1>10, <1>11, <1>12, <1>13 DEF json

-----------------------------------------------------------------------------
(* Reading a file into the table. *)

(* The saved rows of a table are in a file. *)
Stored(rs, file) ==
  \A i \in DOMAIN rs : rs[i].status = "Success" =>
    /\ Accepted(file) \/ file.default = BadOwner
    /\ rs[i].key \in DOMAIN file.maps
    /\ rs[i].resource = file.maps[rs[i].key].resource
    /\ rs[i].owner = Resolved(file, rs[i].key)

(* Marking rows takes rows from the saved ones, or none. *)
LEMMA FailureMarked ==
  ASSUME NEW rs \in Seq(Rows), NEW S
  PROVE  LET marked == Override(rs, S, "Failure")
         IN /\ marked \in Seq(Rows)
            /\ KeysDistinct(rs) => KeysDistinct(marked)
            /\ \A file : Stored(rs, file) => Stored(marked, file)
<1> DEFINE marked == Override(rs, S, "Failure")
<1>1. /\ marked \in Seq(Rows) /\ DOMAIN marked = DOMAIN rs
      /\ \A i \in DOMAIN rs :
           /\ marked[i].key = rs[i].key /\ marked[i].resource = rs[i].resource
           /\ marked[i].owner = rs[i].owner
           /\ marked[i].status = "Success" => rs[i].status = "Success"
  BY OverrideRows DEF Statuses
<1> HIDE DEF marked
<1>2. KeysDistinct(rs) => KeysDistinct(marked)
  BY <1>1 DEF KeysDistinct, SavedRows
<1>3. \A file : Stored(rs, file) => Stored(marked, file)
  BY <1>1 DEF Stored
<1> QED BY <1>1, <1>2, <1>3 DEF marked

LEMMA LoadedFile ==
  ASSUME NEW file \in Files, NEW source \in Sources \union {NoSource}
  PROVE  LET after == Loading(file, source)
         IN /\ after.source \in Sources \union {NoSource}
            /\ Readable(file) => after.source = file
            /\ after.rows \in Seq(Rows)
            /\ after.enabled \in BOOLEAN /\ after.notice \in {"none", "error", "saved"}
            /\ KeysDistinct(after.rows) /\ Stored(after.rows, file)
<1> DEFINE loaded == IF Accepted(file) THEN FromJson(file) ELSE <<>>
           after == Loading(file, source)
<1>1. loaded \in Seq(Rows) /\ KeysDistinct(loaded) /\ Stored(loaded, file)
  <2>1. CASE Accepted(file)
    <3>1. file \in Sources
      BY <2>1 DEF Accepted, Sources, Readable
    <3>2. Stored(FromJson(file), file)
      BY <2>1, <3>1, FromJsonRows DEF Stored
    <3> QED BY <2>1, <3>1, <3>2, FromJsonRows
  <2>2. CASE ~Accepted(file)
    <3>1. loaded = <<>>
      BY <2>2
    <3> HIDE DEF loaded
    <3> QED BY <3>1 DEF KeysDistinct, SavedRows, Stored
  <2> QED BY <2>1, <2>2
<1>2. /\ after.source = IF Readable(file) THEN file ELSE source
      /\ after.rows = Override(loaded, InvalidRows(loaded), "Failure")
      /\ after.enabled \in BOOLEAN
      /\ after.notice \in {"none", "error"}
  <2>1. /\ after.source = IF Readable(file) THEN file ELSE source
        /\ after.rows = Override(loaded, InvalidRows(loaded), "Failure")
        /\ after.enabled = Accepted(file)
        /\ after.notice = IF Accepted(file) /\ InvalidRows(loaded) = {} THEN "none" ELSE "error"
    BY Zenon DEF Loading
  <2>2. Accepted(file) \in BOOLEAN
    BY Zenon DEF Accepted
  <2> HIDE DEF after, loaded
  <2> QED BY <2>1, <2>2
<1> HIDE DEF loaded, after
<1>3. /\ after.rows \in Seq(Rows) /\ KeysDistinct(after.rows) /\ Stored(after.rows, file)
  BY <1>1, <1>2, FailureMarked
<1>4. after.source \in Sources \union {NoSource} /\ (Readable(file) => after.source = file)
  BY <1>2 DEF Sources
<1> QED BY <1>2, <1>3, <1>4 DEF after

LEMMA KeptUnchanged ==
  ASSUME Kept, UNCHANGED <<disk, configDir, selected, disturbed, jsonSource, rows>>
  PROVE  Kept'
BY DEF Kept, SourceMatches, KeysDistinct, SavedRows, SuccessRowsStored

LEMMA FileRead ==
  ASSUME Types, NEW n \in Names, LoadFile(n), selected' = n, UNCHANGED <<disk, configDir>>
  PROVE  DiskTypes' /\ TableTypes' /\ Kept'
<1> DEFINE file == disk[configDir][n]
           after == Loading(file, jsonSource)
<1>1. file \in Files /\ jsonSource \in Sources \union {NoSource}
  BY DEF Types, DiskTypes, ListTypes, TableTypes
<1>2. /\ jsonSource' = after.source /\ rows' = after.rows /\ enabled' = after.enabled
      /\ notice' = after.notice /\ view' = "table"
      /\ disturbed' = disturbed \ {<<configDir, n>>}
      /\ disk'[configDir'][selected'] = file
  BY Zenon DEF LoadFile
<1> HIDE DEF file, after
<1>3. /\ after.source \in Sources \union {NoSource}
      /\ Readable(file) => after.source = file
      /\ after.rows \in Seq(Rows)
      /\ after.enabled \in BOOLEAN /\ after.notice \in {"none", "error", "saved"}
      /\ KeysDistinct(after.rows) /\ Stored(after.rows, file)
  BY <1>1, LoadedFile DEF after
<1>4. DiskTypes' /\ TableTypes'
  BY <1>2, <1>3 DEF Types, DiskTypes, TableTypes
<1>5. SourceMatches' /\ KeysDistinct(rows)'
  BY <1>2, <1>3 DEF SourceMatches, KeysDistinct, SavedRows
<1>6. SuccessRowsStored'
  <2>1. Stored(rows', file)
    BY <1>2, <1>3
  <2> QED BY <1>2, <2>1 DEF SuccessRowsStored, Stored
<1> QED BY <1>4, <1>5, <1>6 DEF Kept

LEMMA FilesListed ==
  ASSUME PageInv, NEW files \in SUBSET Names, SetConfigFiles(files),
         UNCHANGED <<disk, configDir>>
  PROVE  /\ DiskTypes' /\ TableTypes' /\ Kept'
         /\ configFiles' \subseteq Names /\ selected' \in configFiles' \union {NoFile}
<1>1. CASE Cardinality(files) = 1
  <2> DEFINE n == CHOOSE n \in files : TRUE
  <2>1. configFiles' = files /\ selected' = n /\ LoadFile(n)
    BY <1>1, Zenon DEF SetConfigFiles
  <2>2. files # {}
    BY <1>1, FS_EmptySet
  <2>3. n \in files
    BY <2>2
  <2> HIDE DEF n
  <2> QED BY <2>1, <2>3, FileRead DEF PageInv
<1>2. CASE Cardinality(files) # 1
  <2>1. /\ configFiles' = files /\ selected' = NoFile
        /\ UNCHANGED <<jsonSource, rows, enabled, notice, view, disturbed>>
    BY <1>2 DEF SetConfigFiles, tableVars
  <2>2. DiskTypes' /\ TableTypes'
    BY <2>1 DEF PageInv, Types, DiskTypes, TableTypes
  <2>3. Kept'
    BY <2>1 DEF PageInv, Kept, SourceMatches, KeysDistinct, SavedRows, SuccessRowsStored
  <2> QED BY <2>1, <2>2, <2>3
<1> QED BY <1>1, <1>2

-----------------------------------------------------------------------------
(* Steps of the user on the table. *)

(* A row that is still marked as saved was there before.                    *)
LEMMA EditKeeps ==
  ASSUME PageInv, Editing, rows' \in Seq(Rows), NEW from,
         \A i \in DOMAIN rows' : rows'[i].status = "Success" =>
           from[i] \in DOMAIN rows /\ rows'[i] = rows[from[i]],
         \A i, j \in DOMAIN rows' : from[i] = from[j] => i = j
  PROVE  PageInv'
<1>1. /\ used.edits < MaxEdits /\ used' = [used EXCEPT !.edits = @ + 1]
      /\ UNCHANGED <<disk, disturbed, configDir, configFiles, selected, listedDir, jsonSource,
                     enabled, notice, view, unheard, runQueue, running, posted>>
  BY DEF Editing, fileVars, listVars, workerVars
<1>2. UsedTypes'
  BY <1>1, Defined DEF PageInv, Types, UsedTypes
<1>3. (DiskTypes /\ ListTypes /\ TableTypes /\ WorkerTypes)'
  BY <1>1 DEF PageInv, Types, DiskTypes, ListTypes, TableTypes, WorkerTypes
<1>4. SourceMatches'
  BY <1>1 DEF PageInv, Kept, SourceMatches
<1>5. KeysDistinct(rows)'
  BY DEF PageInv, Kept, KeysDistinct, SavedRows
<1>6. SuccessRowsStored'
  <2>1. SuccessRowsStored
    BY DEF PageInv, Kept
  <2> QED BY <1>1, <2>1 DEF SuccessRowsStored
<1> QED BY <1>2, <1>3, <1>4, <1>5, <1>6 DEF PageInv, Types, Kept

LEMMA RowsOf ==
  ASSUME PageInv
  PROVE  /\ rows \in Seq(Rows) /\ Len(rows) \in Nat /\ DOMAIN rows = 1 .. Len(rows)
         /\ \A i \in DOMAIN rows : rows[i] \in Rows
<1>1. rows \in Seq(Rows)
  BY DEF PageInv, Types, TableTypes
<1> QED BY <1>1, LenProperties, ElementOfSeq

LEMMA AddTableRowKeeps ==
  ASSUME PageInv, AddTableRow
  PROVE  PageInv'
<1> DEFINE new == Row(Empty, NoResource, ConfiguredOwner, "Modified")
           n == Len(rows)
<1>1. Editing /\ rows' = Append(rows, new)
  BY DEF AddTableRow
<1>2. new \in Rows /\ new.status = "Modified"
  BY Defined DEF Row, Rows, Statuses
<1> HIDE DEF new
<1>3. /\ rows' \in Seq(Rows) /\ n \in Nat /\ DOMAIN rows = 1 .. n /\ DOMAIN rows' = 1 .. n + 1
      /\ \A i \in 1 .. n : rows'[i] = rows[i]
      /\ rows'[n + 1] = new
  BY <1>1, <1>2, RowsOf, AppendProperties
<1> DEFINE from == [i \in 1 .. n + 1 |-> i]
<1> HIDE DEF n
<1>4. /\ \A i \in DOMAIN rows' : rows'[i].status = "Success" =>
            from[i] \in DOMAIN rows /\ rows'[i] = rows[from[i]]
      /\ \A i, j \in DOMAIN rows' : from[i] = from[j] => i = j
  BY <1>2, <1>3
<1> HIDE DEF from
<1> QED BY <1>1, <1>3, <1>4, EditKeeps

LEMMA SetResourceAttributeKeeps ==
  ASSUME PageInv, NEW k \in DOMAIN rows, NEW row \in Rows, SetResourceAttribute(k, row)
  PROVE  PageInv'
<1> DEFINE new == [row EXCEPT !.status = "Modified"]
<1>1. Editing /\ rows' = [rows EXCEPT ![k] = new]
  BY DEF SetResourceAttribute
<1>2. new \in Rows /\ new.status = "Modified"
  BY DEF Rows, Statuses
<1> HIDE DEF new
<1>3. rows' \in Seq(Rows) /\ DOMAIN rows' = DOMAIN rows
  BY <1>1, <1>2, RowsOf, ExceptSeq
<1> DEFINE from == [i \in DOMAIN rows |-> i]
<1>4. /\ \A i \in DOMAIN rows' : rows'[i].status = "Success" =>
            from[i] \in DOMAIN rows /\ rows'[i] = rows[from[i]]
      /\ \A i, j \in DOMAIN rows' : from[i] = from[j] => i = j
  BY <1>1, <1>2, <1>3, RowsOf
<1> HIDE DEF from
<1> QED BY <1>1, <1>3, <1>4, EditKeeps

LEMMA DeleteTableRowKeeps ==
  ASSUME PageInv, NEW S \in SUBSET DOMAIN rows, DeleteTableRow(S)
  PROVE  PageInv'
<1> DEFINE n == Len(rows)
           m == n - Cardinality(S)
<1>1. n \in Nat /\ DOMAIN rows = 1 .. n /\ \A i \in 1 .. n : rows[i] \in Rows
  BY RowsOf
<1>2. m \in Nat
  <2>1. IsFiniteSet(1 .. n) /\ Cardinality(1 .. n) = n
    BY <1>1, FS_Interval
  <2>2. IsFiniteSet(S) /\ Cardinality(S) <= n
    BY <1>1, <2>1, FS_Subset
  <2>3. Cardinality(S) \in Nat
    BY <2>2, FS_CardinalityType
  <2> QED BY <1>1, <2>2, <2>3
<1>3. Editing
  BY DEF DeleteTableRow
<1>4. PICK kept \in [1 .. m -> DOMAIN rows \ S] :
        /\ \A i, j \in DOMAIN kept : i < j => kept[i] < kept[j]
        /\ rows' = [j \in DOMAIN kept |-> rows[kept[j]]]
  BY DEF DeleteTableRow
<1> HIDE DEF n, m
<1>5. rows' \in Seq(Rows) /\ DOMAIN rows' = 1 .. m
  BY <1>1, <1>2, <1>4
<1>6. ASSUME NEW i \in 1 .. m, NEW j \in 1 .. m, kept[i] = kept[j] PROVE i = j
  <2>1. kept[i] \in 1 .. n /\ kept[j] \in 1 .. n
    BY <1>1, <1>4
  <2>2. DOMAIN kept = 1 .. m /\ \A x \in 1 .. n : ~(x < x)
    BY <1>1, <1>4
  <2>3. ~(i < j) /\ ~(j < i)
    BY <1>4, <1>6, <2>1, <2>2
  <2> QED BY <1>2, <2>3
<1>7. \A i \in 1 .. m : kept[i] \in DOMAIN rows /\ rows'[i] = rows[kept[i]]
  BY <1>4
<1>8. /\ \A i \in DOMAIN rows' : rows'[i].status = "Success" =>
            kept[i] \in DOMAIN rows /\ rows'[i] = rows[kept[i]]
      /\ \A i, j \in DOMAIN rows' : kept[i] = kept[j] => i = j
  BY <1>5, <1>6, <1>7
<1> QED BY <1>3, <1>5, <1>8, EditKeeps

-----------------------------------------------------------------------------
(* Saving. *)

LEMMA SaveTypes ==
  ASSUME PageInv, SaveChanges
  PROVE  (ListTypes /\ WorkerTypes /\ UsedTypes)'
BY DEF PageInv, Types, SaveChanges, ListTypes, WorkerTypes, UsedTypes, listVars, workerVars

LEMMA ConvertedTable ==
  ASSUME PageInv, Convertible
  PROVE  /\ jsonSource \in Sources /\ jsonSource.default # Empty /\ rows \in Seq(Rows)
         /\ InvalidRows(rows) = {} /\ KeysDistinct(rows)
BY DEF PageInv, Types, TableTypes, Kept, Convertible, NoSource, File

(* All rows are marked as saved once what they convert to is in the file.   *)
LEMMA SavedTable ==
  ASSUME NEW rs \in Seq(Rows), InvalidRows(rs) = {}, KeysDistinct(rs),
         NEW source \in Sources, source.default # Empty
  PROVE  LET marked == Override(rs, DOMAIN rs, "Success")
         IN /\ marked \in Seq(Rows) /\ KeysDistinct(marked)
            /\ Stored(marked, ToJson(rs, source))
<1> DEFINE marked == Override(rs, DOMAIN rs, "Success")
           json == ToJson(rs, source)
<1>1. /\ marked \in Seq(Rows) /\ DOMAIN marked = DOMAIN rs
      /\ \A i \in DOMAIN rs :
           /\ marked[i].key = rs[i].key /\ marked[i].resource = rs[i].resource
           /\ marked[i].owner = rs[i].owner
  BY OverrideRows DEF Statuses
<1>2. \A i, j \in DOMAIN rs : rs[i].key = rs[j].key => i = j
  BY ValidRows
<1>3. /\ Accepted(json) \/ json.default = BadOwner
      /\ \A i \in DOMAIN rs :
           /\ rs[i].key \in DOMAIN json.maps
           /\ rs[i].resource = json.maps[rs[i].key].resource
           /\ rs[i].owner = Resolved(json, rs[i].key)
  BY ConvertedRows
<1> HIDE DEF marked, json
<1>4. KeysDistinct(marked)
  BY <1>1, <1>2 DEF KeysDistinct, SavedRows
<1>5. Stored(marked, json)
  BY <1>1, <1>3 DEF Stored
<1> QED BY <1>1, <1>4, <1>5 DEF marked, json

LEMMA RefuseInvalidRowsKeeps ==
  ASSUME PageInv, RefuseInvalidRows
  PROVE  PageInv'
<1>1. /\ rows' = Override(rows, InvalidRows(rows), "Failure") /\ notice' = "error"
      /\ UNCHANGED <<disk, disturbed, jsonSource, configDir, selected, enabled, view>>
      /\ SaveChanges
  BY DEF RefuseInvalidRows, SaveChanges, fileVars, listVars
<1>2. /\ rows' \in Seq(Rows) /\ KeysDistinct(rows')
      /\ \A file : Stored(rows, file) => Stored(rows', file)
  BY <1>1, RowsOf, FailureMarked DEF PageInv, Kept
<1>3. DiskTypes' /\ TableTypes'
  BY <1>1, <1>2 DEF PageInv, Types, DiskTypes, TableTypes
<1>4. SourceMatches' /\ KeysDistinct(rows)'
  BY <1>1, <1>2 DEF PageInv, Kept, SourceMatches, KeysDistinct, SavedRows
<1>5. SuccessRowsStored'
  <2>1. SuccessRowsStored
    BY DEF PageInv, Kept
  <2> QED BY <1>1, <1>2, <2>1 DEF SuccessRowsStored, Stored
<1> QED BY <1>1, <1>3, <1>4, <1>5, SaveTypes DEF PageInv, Types, Kept

LEMMA SkipWriteKeeps ==
  ASSUME PageInv, SkipWrite
  PROVE  PageInv'
<1>1. /\ rows' = Override(rows, DOMAIN rows, "Success") /\ notice' = "saved"
      /\ UNCHANGED <<disk, disturbed, jsonSource, configDir, selected, enabled, view>>
      /\ SaveChanges /\ Convertible /\ ToJson(rows, jsonSource) = jsonSource
  BY DEF SkipWrite, Convertible, SaveChanges, Saved, fileVars, listVars
<1>2. jsonSource \in Sources /\ jsonSource # NoSource
  BY <1>1, ConvertedTable DEF NoSource, File
<1>3. rows' \in Seq(Rows) /\ KeysDistinct(rows') /\ Stored(rows', jsonSource)
  BY <1>1, <1>2, ConvertedTable, SavedTable
<1>4. DiskTypes' /\ TableTypes'
  BY <1>1, <1>3 DEF PageInv, Types, DiskTypes, TableTypes
<1>5. SourceMatches' /\ KeysDistinct(rows)'
  BY <1>1, <1>3 DEF PageInv, Kept, SourceMatches, KeysDistinct, SavedRows
<1>6. SuccessRowsStored'
  <2>1. SourceMatches
    BY DEF PageInv, Kept
  <2> QED BY <1>1, <1>2, <1>3, <2>1 DEF SuccessRowsStored, SourceMatches, Stored
<1> QED BY <1>1, <1>4, <1>5, <1>6, SaveTypes DEF PageInv, Types, Kept

LEMMA WriteJsonFileEffect ==
  ASSUME PageInv, WriteJsonFile
  PROVE  LET json == ToJson(rows, jsonSource)
         IN /\ SaveChanges /\ Convertible
            /\ configDir \in Dirs /\ selected \in Names
            /\ disk' = [disk EXCEPT ![configDir][selected] = json]
            /\ disk'[configDir][selected] = json
            /\ jsonSource' = json
            /\ disturbed' = disturbed \ {<<configDir, selected>>}
            /\ rows' = Override(rows, DOMAIN rows, "Success") /\ notice' = "saved"
            /\ UNCHANGED <<configDir, selected, enabled, view>>
<1> DEFINE json == ToJson(rows, jsonSource)
<1>1. /\ SaveChanges /\ Convertible /\ selected # NoFile
      /\ disk' = [disk EXCEPT ![configDir][selected] = json] /\ jsonSource' = json
      /\ disturbed' = disturbed \ {<<configDir, selected>>}
      /\ rows' = Override(rows, DOMAIN rows, "Success") /\ notice' = "saved"
      /\ UNCHANGED <<configDir, selected, enabled, view>>
  BY DEF WriteJsonFile, Convertible, SaveChanges, Saved, listVars
<1>2. configDir \in Dirs /\ selected \in Names /\ disk \in [Dirs -> [Names -> Files]]
  BY <1>1 DEF PageInv, Types, DiskTypes, ListTypes
<1> HIDE DEF json
<1>3. disk'[configDir][selected] = json
  BY <1>1, <1>2
<1> QED BY <1>1, <1>2, <1>3 DEF json

LEMMA WriteJsonFileKeeps ==
  ASSUME PageInv, WriteJsonFile
  PROVE  PageInv'
<1> DEFINE json == ToJson(rows, jsonSource)
<1>1. /\ SaveChanges /\ Convertible
      /\ configDir \in Dirs /\ selected \in Names
      /\ disk' = [disk EXCEPT ![configDir][selected] = json]
      /\ disk'[configDir][selected] = json
      /\ jsonSource' = json
      /\ disturbed' = disturbed \ {<<configDir, selected>>}
      /\ rows' = Override(rows, DOMAIN rows, "Success") /\ notice' = "saved"
      /\ UNCHANGED <<configDir, selected, enabled, view>>
  BY WriteJsonFileEffect
<1>2. json \in Sources
  BY <1>1, ConvertedTable, ConvertedRows
<1>3. rows' \in Seq(Rows) /\ KeysDistinct(rows') /\ Stored(rows', json)
  BY <1>1, ConvertedTable, SavedTable
<1> HIDE DEF json
<1>4. DiskTypes' /\ TableTypes'
  <2>1. json \in Files
    BY <1>2 DEF Sources
  <2>2. DiskTypes'
    BY <1>1, <2>1 DEF PageInv, Types, DiskTypes
  <2> QED BY <1>1, <1>2, <1>3, <2>2 DEF PageInv, Types, TableTypes
<1>5. SourceMatches' /\ KeysDistinct(rows)'
  BY <1>1, <1>3 DEF SourceMatches, KeysDistinct, SavedRows
<1>6. SuccessRowsStored'
  BY <1>1, <1>3 DEF SuccessRowsStored, Stored
<1> QED BY <1>1, <1>4, <1>5, <1>6, SaveTypes DEF PageInv, Types, Kept

LEMMA WriteFailsKeeps ==
  ASSUME PageInv, WriteFails
  PROVE  PageInv'
<1>1. /\ notice' = "error" /\ UNCHANGED <<jsonSource, rows, configDir, selected, enabled, view>>
      /\ SaveChanges
  BY DEF WriteFails, Convertible, SaveChanges, listVars
<1>2. TableTypes'
  BY <1>1 DEF PageInv, Types, TableTypes
<1>3. CASE UNCHANGED fileVars
  <2>1. DiskTypes' /\ Kept'
    BY <1>1, <1>3, KeptUnchanged DEF PageInv, Types, DiskTypes, fileVars
  <2> QED BY <1>1, <1>2, <2>1, SaveTypes DEF PageInv, Types
<1>4. CASE /\ selected # NoFile
           /\ disk' = [disk EXCEPT ![configDir][selected] = Broken]
           /\ disturbed' = disturbed \union {<<configDir, selected>>}
  <2>1. configDir \in Dirs /\ selected \in Names /\ Broken \in Files
    BY <1>4 DEF PageInv, Types, ListTypes, Files
  <2>2. DiskTypes'
    BY <1>4, <2>1 DEF PageInv, Types, DiskTypes
  <2>3. SourceMatches' /\ SuccessRowsStored'
    BY <1>1, <1>4 DEF SourceMatches, SuccessRowsStored
  <2>4. KeysDistinct(rows)'
    BY <1>1 DEF PageInv, Kept, KeysDistinct, SavedRows
  <2> QED BY <1>1, <1>2, <2>2, <2>3, <2>4, SaveTypes DEF PageInv, Types, Kept
<1> QED BY <1>3, <1>4 DEF WriteFails

-----------------------------------------------------------------------------
(* The combo box, the searches and other programs. *)

LEMMA FoundNames ==
  ASSUME NEW d
  PROVE  Found(d) \in SUBSET Names
BY DEF Found

LEMMA SelectConfigFileKeeps ==
  ASSUME PageInv, NEW n \in Names, SelectConfigFile(n)
  PROVE  PageInv'
<1>1. /\ n \in configFiles /\ selected' = n /\ LoadFile(n)
      /\ UNCHANGED <<disk, configDir, configFiles, listedDir, unheard, used, workerVars>>
  BY DEF SelectConfigFile
<1>2. (DiskTypes /\ TableTypes /\ Kept)'
  BY <1>1, FileRead DEF PageInv
<1>3. (ListTypes /\ WorkerTypes /\ UsedTypes)'
  BY <1>1 DEF PageInv, Types, ListTypes, WorkerTypes, UsedTypes, workerVars
<1> QED BY <1>2, <1>3 DEF PageInv, Types

LEMMA OpenFileDialogKeeps ==
  ASSUME PageInv, NEW d \in Dirs, OpenFileDialog(d)
  PROVE  PageInv'
<1> DEFINE w == [kind |-> "list", arg |-> d]
<1>1. /\ used.searches < MaxSearches /\ used' = [used EXCEPT !.searches = @ + 1]
      /\ configDir' = d /\ view' = "notification" /\ jsonSource' = NoSource /\ rows' = <<>>
      /\ runQueue' = Append(runQueue, w)
      /\ UNCHANGED <<disk, disturbed, configFiles, selected, listedDir, enabled, notice, unheard,
                     running, posted>>
  BY DEF OpenFileDialog, Start, fileVars
<1>2. w.kind = "list" => w.arg \in Dirs
  OBVIOUS
<1> HIDE DEF w
<1>3. WorkerTypes'
  <2>1. IsSequence(runQueue') /\ Range(runQueue') = Range(runQueue) \union {w}
    BY <1>1, RangeAppended DEF PageInv, Types, WorkerTypes
  <2> QED BY <1>1, <1>2, <2>1 DEF PageInv, Types, WorkerTypes
<1>4. (DiskTypes /\ ListTypes /\ TableTypes /\ WorkerTypes)'
  BY <1>1, <1>3 DEF PageInv, Types, DiskTypes, ListTypes, TableTypes, WorkerTypes
<1>5. UsedTypes'
  BY <1>1, Defined DEF PageInv, Types, UsedTypes
<1>6. SourceMatches'
  BY <1>1 DEF SourceMatches
<1>7. DOMAIN rows' = {}
  BY <1>1
<1>8. KeysDistinct(rows)' /\ SuccessRowsStored'
  BY <1>7 DEF KeysDistinct, SavedRows, SuccessRowsStored
<1> QED BY <1>4, <1>5, <1>6, <1>8 DEF PageInv, Types, Kept

LEMMA RescanConfigDirectoryKeeps ==
  ASSUME PageInv, RescanConfigDirectory
  PROVE  PageInv'
<1>1. /\ SetConfigFiles(Found(configDir)) /\ listedDir' = configDir
      /\ UNCHANGED <<disk, configDir, unheard, used, workerVars>>
  BY DEF RescanConfigDirectory
<1>2. /\ (DiskTypes /\ TableTypes /\ Kept)'
      /\ configFiles' \subseteq Names /\ selected' \in configFiles' \union {NoFile}
  BY <1>1, FoundNames, FilesListed
<1>3. (ListTypes /\ WorkerTypes /\ UsedTypes)'
  BY <1>1, <1>2 DEF PageInv, Types, ListTypes, WorkerTypes, UsedTypes, workerVars
<1> QED BY <1>2, <1>3 DEF PageInv, Types

LEMMA UserStepKeeps ==
  ASSUME PageInv, UserStep
  PROVE  PageInv'
BY SelectConfigFileKeeps, OpenFileDialogKeeps, RescanConfigDirectoryKeeps, AddTableRowKeeps,
   SetResourceAttributeKeeps, DeleteTableRowKeeps, RefuseInvalidRowsKeeps, SkipWriteKeeps,
   WriteJsonFileKeeps, WriteFailsKeeps
   DEF UserStep

(* A step of the thread or of the event loop that leaves the page alone.    *)
LEMMA PageUntouched ==
  ASSUME PageInv, UNCHANGED <<disk, disturbed, configDir, configFiles, selected, listedDir,
                              jsonSource, rows, view, used>>,
         WorkerTypes', unheard' \subseteq Dirs, enabled' \in BOOLEAN,
         notice' \in {"none", "error", "saved"}
  PROVE  PageInv'
<1>1. (DiskTypes /\ ListTypes /\ TableTypes /\ UsedTypes)'
  BY DEF PageInv, Types, DiskTypes, ListTypes, TableTypes, UsedTypes
<1>2. Kept'
  BY KeptUnchanged DEF PageInv
<1> QED BY <1>1, <1>2 DEF PageInv, Types

LEMMA BeginSearchKeeps ==
  ASSUME PageInv, BeginSearch
  PROVE  PageInv'
<1>1. PICK w \in [kind : {"list"}, arg : Dirs] :
        Begin(w, Found(w.arg)) /\ UNCHANGED viewEditVars
  BY DEF BeginSearch
<1>2. /\ runQueue # <<>> /\ w = Head(runQueue)
      /\ running' = <<w, Found(w.arg)>> /\ runQueue' = Tail(runQueue) /\ posted' = posted
  BY <1>1 DEF Begin
<1>3. IsSequence(Tail(runQueue)) /\ Range(Tail(runQueue)) \subseteq Range(runQueue)
  BY <1>2, RangeOfTail DEF PageInv, Types, WorkerTypes
<1>4. running'[1] = w /\ running'[2] = Found(w.arg)
  BY <1>2
<1>5. WorkerTypes'
  BY <1>2, <1>3, <1>4, FoundNames DEF PageInv, Types, WorkerTypes
<1>6. UNCHANGED <<disk, disturbed, configDir, configFiles, selected, listedDir,
                  jsonSource, rows, view, used, unheard, enabled, notice>>
  BY <1>1 DEF viewEditVars, fileVars, listVars, tableVars
<1>7. unheard \subseteq Dirs /\ enabled \in BOOLEAN /\ notice \in {"none", "error", "saved"}
  BY DEF PageInv, Types, ListTypes, TableTypes
<1> QED BY <1>5, <1>6, <1>7, PageUntouched

LEMMA SearchEndKeeps ==
  ASSUME PageInv, EndSearch \/ SearchRaises
  PROVE  PageInv'
<1> DEFINE w == running[1]
<1>1. running # <<>> /\ w.kind = "list"
  BY DEF EndSearch, SearchRaises
<1>2. w.arg \in Dirs /\ running[2] \in SUBSET Names
  BY <1>1 DEF PageInv, Types, WorkerTypes
<1>3. PICK signals :
        /\ IsSequence(signals) /\ Emit(signals)
        /\ \A s \in Range(signals) :
             s \in {Signal("result", w, running[2]), Signal("finished", w, <<>>)}
  BY RangeEmitted DEF EndSearch, SearchRaises
<1>4. /\ unheard' \subseteq unheard \union {w.arg}
      /\ UNCHANGED <<disk, disturbed, configDir, configFiles, selected, listedDir,
                     jsonSource, rows, view, used, enabled, notice>>
  BY DEF EndSearch, SearchRaises, fileVars, listVars, tableVars
<1> HIDE DEF w
<1>5. WorkerTypes'
  <2>1. posted' = posted \o signals /\ running' = <<>> /\ runQueue' = runQueue
    BY <1>3 DEF Emit
  <2>2. IsSequence(posted') /\ Range(posted') = Range(posted) \union Range(signals)
    BY <1>3, <2>1, RangeConcatenated DEF PageInv, Types, WorkerTypes
  <2>3. \A s \in Range(signals) : ListsNames(s)
    BY <1>2, <1>3 DEF ListsNames, Signal
  <2> QED BY <2>1, <2>2, <2>3 DEF PageInv, Types, WorkerTypes
<1>6. /\ unheard' \subseteq Dirs /\ enabled \in BOOLEAN
      /\ notice \in {"none", "error", "saved"}
  BY <1>2, <1>4 DEF PageInv, Types, ListTypes, TableTypes
<1> QED BY <1>4, <1>5, <1>6, PageUntouched

LEMMA DeliveredType ==
  ASSUME PageInv, posted # <<>>, posted' = Tail(posted), UNCHANGED <<runQueue, running>>
  PROVE  WorkerTypes' /\ ListsNames(Head(posted))
<1>1. /\ IsSequence(Tail(posted)) /\ Range(Tail(posted)) \subseteq Range(posted)
      /\ Head(posted) \in Range(posted)
  BY RangeOfTail DEF PageInv, Types, WorkerTypes
<1> QED BY <1>1 DEF PageInv, Types, WorkerTypes

LEMMA ListConfigFilesCallbackKeeps ==
  ASSUME PageInv, ListConfigFilesCallback
  PROVE  PageInv'
<1>1. /\ posted # <<>> /\ Head(posted).signal = "result" /\ posted' = Tail(posted)
      /\ Head(posted).worker.kind = "list"
      /\ SetConfigFiles(Head(posted).value) /\ listedDir' = Head(posted).worker.arg
      /\ UNCHANGED <<disk, configDir, unheard, used, runQueue, running>>
  BY DEF ListConfigFilesCallback, Deliver, Delivered
<1>4. /\ WorkerTypes'
      /\ Head(posted).worker.arg \in Dirs /\ Head(posted).value \in SUBSET Names
  BY <1>1, DeliveredType DEF ListsNames
<1>2. /\ (DiskTypes /\ TableTypes /\ Kept)'
      /\ configFiles' \subseteq Names /\ selected' \in configFiles' \union {NoFile}
  BY <1>1, <1>4, FilesListed
<1>3. (ListTypes /\ UsedTypes)'
  BY <1>1, <1>2, <1>4 DEF PageInv, Types, ListTypes, UsedTypes
<1> QED BY <1>2, <1>3, <1>4 DEF PageInv, Types

LEMMA SearchCompleteCallbackKeeps ==
  ASSUME PageInv, SearchCompleteCallback
  PROVE  PageInv'
<1>1. /\ posted # <<>> /\ posted' = Tail(posted) /\ notice' = "none" /\ enabled' = TRUE
      /\ UNCHANGED <<disk, disturbed, configDir, configFiles, selected, listedDir,
                     jsonSource, rows, view, used, unheard, runQueue, running>>
  BY DEF SearchCompleteCallback, Deliver, fileVars, listVars
<1>2. WorkerTypes' /\ unheard' \subseteq Dirs
  BY <1>1, DeliveredType DEF PageInv, Types, ListTypes
<1> QED BY <1>1, <1>2, PageUntouched

LEMMA OutsideChangeKeeps ==
  ASSUME PageInv, NEW d \in Dirs, NEW n \in Names, OutsideChange(d, n)
  PROVE  PageInv'
<1>1. PICK file \in OutsideFiles : disk' = [disk EXCEPT ![d][n] = file]
  BY DEF OutsideChange
<1>2. /\ disturbed' = disturbed \union {<<d, n>>}
      /\ used.outside < MaxOutside /\ used' = [used EXCEPT !.outside = @ + 1]
      /\ UNCHANGED <<configDir, configFiles, selected, listedDir, jsonSource, rows, view,
                     unheard, enabled, notice, runQueue, running, posted>>
  BY DEF OutsideChange, listVars, tableVars, workerVars
<1>3. file \in Files
  BY Defined
<1>4. (DiskTypes /\ ListTypes /\ TableTypes /\ WorkerTypes)'
  BY <1>1, <1>2, <1>3 DEF PageInv, Types, DiskTypes, ListTypes, TableTypes, WorkerTypes
<1>5. UsedTypes'
  BY <1>2, Defined DEF PageInv, Types, UsedTypes
<1>6. ASSUME selected # NoFile, <<configDir, selected>> \notin disturbed'
      PROVE  /\ disk'[configDir][selected] = disk[configDir][selected]
             /\ <<configDir, selected>> \notin disturbed
  <2>1. configDir \in Dirs /\ selected \in Names /\ disk \in [Dirs -> [Names -> Files]]
    BY <1>6 DEF PageInv, Types, DiskTypes, ListTypes
  <2>2. ~(configDir = d /\ selected = n)
    BY <1>2, <1>6
  <2> QED BY <1>1, <1>2, <1>6, <2>1, <2>2
<1>7. SourceMatches' /\ SuccessRowsStored'
  <2>1. SourceMatches /\ SuccessRowsStored
    BY DEF PageInv, Kept
  <2> QED BY <1>2, <1>6, <2>1 DEF SourceMatches, SuccessRowsStored
<1>8. KeysDistinct(rows)'
  BY <1>2 DEF PageInv, Kept, KeysDistinct, SavedRows
<1> QED BY <1>4, <1>5, <1>7, <1>8 DEF PageInv, Types, Kept

-----------------------------------------------------------------------------

LEMMA InitEstablishes ==
  ASSUME Init
  PROVE  PageInv
<1>1. disk \in [Dirs -> [Names -> Files]]
  BY Defined DEF Init
<1>2. configDir \in Dirs /\ listedDir = configDir /\ configFiles = Found(configDir)
  BY DEF Init
<1>3. unheard = {} /\ disturbed = {} /\ used = [edits |-> 0, searches |-> 0, outside |-> 0]
  BY DEF Init
<1>4. WorkerTypes
  <2>1. runQueue = <<>> /\ running = <<>> /\ posted = <<>>
    BY DEF Init, WorkersInit
  <2>2. IsSequence(<<>>) /\ Range(<<>>) = {}
    BY DEF IsSequence, Range
  <2> QED BY <2>1, <2>2 DEF WorkerTypes
<1>5. UsedTypes
  BY <1>3, Defined DEF UsedTypes
<1>6. CASE Cardinality(configFiles) = 1
  <2> DEFINE n == CHOOSE n \in configFiles : TRUE
             file == disk[configDir][n]
             after == Loading(file, NoSource)
  <2>1. /\ selected = n /\ jsonSource = after.source /\ rows = after.rows
        /\ enabled = after.enabled /\ notice = after.notice /\ view = "table"
    BY <1>6, Zenon DEF Init
  <2>2. configFiles # {}
    BY <1>6, FS_EmptySet
  <2>3. n \in configFiles /\ n \in Names
    BY <1>2, <2>2, FoundNames
  <2> HIDE DEF n
  <2>4. file \in Files /\ file = disk[configDir][selected]
    BY <1>1, <1>2, <2>1, <2>3
  <2> HIDE DEF file
  <2>5. /\ after.source \in Sources \union {NoSource} /\ (Readable(file) => after.source = file)
        /\ after.rows \in Seq(Rows)
        /\ after.enabled \in BOOLEAN /\ after.notice \in {"none", "error", "saved"}
        /\ KeysDistinct(after.rows) /\ Stored(after.rows, file)
    BY <2>4, LoadedFile
  <2> HIDE DEF after
  <2>6. DiskTypes /\ ListTypes /\ TableTypes
    BY <1>1, <1>2, <1>3, <2>1, <2>3, <2>5, FoundNames DEF DiskTypes, ListTypes, TableTypes
  <2>7. SourceMatches /\ KeysDistinct(rows) /\ SuccessRowsStored
    BY <2>1, <2>4, <2>5 DEF SourceMatches, SuccessRowsStored, Stored
  <2> QED BY <1>4, <1>5, <2>6, <2>7 DEF PageInv, Types, Kept
<1>7. CASE Cardinality(configFiles) # 1
  <2>1. /\ selected = NoFile /\ jsonSource = NoSource /\ rows = <<>> /\ enabled = TRUE
        /\ notice = "none" /\ view = "notification"
    BY <1>7 DEF Init
  <2>2. DiskTypes /\ ListTypes /\ TableTypes
    BY <1>1, <1>2, <1>3, <2>1, FoundNames DEF DiskTypes, ListTypes, TableTypes
  <2>3. DOMAIN rows = {}
    BY <2>1
  <2>4. SourceMatches /\ KeysDistinct(rows) /\ SuccessRowsStored
    BY <2>1, <2>3 DEF SourceMatches, KeysDistinct, SavedRows, SuccessRowsStored
  <2> QED BY <1>4, <1>5, <2>2, <2>4 DEF PageInv, Types, Kept
<1> QED BY <1>6, <1>7

LEMMA StepKeeps ==
  ASSUME PageInv, [Next]_vars
  PROVE  PageInv'
<1>1. CASE UserStep
  BY <1>1, UserStepKeeps
<1>2. CASE SearchStep
  BY <1>2, BeginSearchKeeps, SearchEndKeeps, ListConfigFilesCallbackKeeps,
     SearchCompleteCallbackKeeps DEF SearchStep
<1>3. CASE \E d \in Dirs, n \in Names : OutsideChange(d, n)
  BY <1>3, OutsideChangeKeeps
<1>4. CASE UNCHANGED vars
  <2>1. UNCHANGED <<disk, disturbed, configDir, configFiles, selected, listedDir, jsonSource,
                    rows, view, used, unheard, enabled, notice, runQueue, running, posted>>
    BY <1>4 DEF vars, viewEditVars, fileVars, listVars, tableVars, workerVars
  <2>2. WorkerTypes' /\ unheard' \subseteq Dirs /\ enabled' \in BOOLEAN
        /\ notice' \in {"none", "error", "saved"}
    BY <2>1 DEF PageInv, Types, ListTypes, TableTypes, WorkerTypes
  <2> QED BY <2>1, <2>2, PageUntouched
<1> QED BY <1>1, <1>2, <1>3, <1>4 DEF Next

LEMMA PageInvariant == Spec => []PageInv
BY InitEstablishes, StepKeeps, PTL DEF Spec

(* Every variable keeps its type, whatever the user, the searches and other *)
(* programs do. *)
THEOREM TypeCorrect == Spec => []TypeOK
<1>1. PageInv => TypeOK
  BY DEF PageInv, Types, DiskTypes, ListTypes, TableTypes, UsedTypes, TypeOK, Sources
<1> QED BY <1>1, PageInvariant, PTL

(* A row marked as saved is in the selected file with what it shows, unless *)
(* the file was changed or could not be read; and the page would accept the *)
(* file again, unless its own default owner is malformed.                   *)
THEOREM SuccessRowsCorrect == Spec => []SuccessRowsStored
<1>1. PageInv => SuccessRowsStored
  BY DEF PageInv, Kept
<1> QED BY <1>1, PageInvariant, PTL

(* Only a save that writes changes a file and the source together.          *)
LEMMA OnlyWriteChangesBoth ==
  ASSUME [Next]_vars, disk' # disk, jsonSource' # jsonSource
  PROVE  WriteJsonFile
<1>1. CASE UserStep
  <2>1. /\ ~(\E n \in Names : SelectConfigFile(n))
        /\ ~(\E d \in Dirs : OpenFileDialog(d))
        /\ ~RescanConfigDirectory
    BY DEF SelectConfigFile, OpenFileDialog, RescanConfigDirectory, fileVars
  <2>2. ~Editing
    BY DEF Editing
  <2>3. ~RefuseInvalidRows /\ ~SkipWrite /\ ~WriteFails
    BY DEF RefuseInvalidRows, SkipWrite, WriteFails
  <2> QED
    BY <1>1, <2>1, <2>2, <2>3 DEF UserStep, AddTableRow, SetResourceAttribute, DeleteTableRow
<1>2. CASE SearchStep
  BY <1>2 DEF SearchStep, BeginSearch, EndSearch, SearchRaises, ListConfigFilesCallback,
              SearchCompleteCallback, viewEditVars, fileVars
<1>3. CASE \E d \in Dirs, n \in Names : OutsideChange(d, n)
  BY <1>3 DEF OutsideChange, tableVars
<1>4. CASE UNCHANGED vars
  BY <1>4 DEF vars, viewEditVars, fileVars, tableVars
<1> QED BY <1>1, <1>2, <1>3, <1>4 DEF Next

LEMMA WriteStores ==
  ASSUME PageInv, WriteJsonFile
  PROVE  /\ disk' = [disk EXCEPT ![configDir][selected] = jsonSource']
         /\ jsonSource'.default = jsonSource.default
         /\ Cardinality(DOMAIN jsonSource'.maps) = Len(rows)
         /\ \A i \in DOMAIN rows :
              /\ rows[i].key \in DOMAIN jsonSource'.maps
              /\ rows[i].resource = jsonSource'.maps[rows[i].key].resource
              /\ rows[i].owner = Resolved(jsonSource', rows[i].key)
<1> DEFINE json == ToJson(rows, jsonSource)
<1>1. jsonSource' = json /\ disk' = [disk EXCEPT ![configDir][selected] = json] /\ Convertible
  BY WriteJsonFileEffect
<1>2. /\ json.default = jsonSource.default
      /\ Cardinality(DOMAIN json.maps) = Len(rows)
      /\ \A i \in DOMAIN rows :
           /\ rows[i].key \in DOMAIN json.maps
           /\ rows[i].resource = json.maps[rows[i].key].resource
           /\ rows[i].owner = Resolved(json, rows[i].key)
  BY <1>1, ConvertedTable, ConvertedRows
<1> HIDE DEF json
<1> QED BY <1>1, <1>2 DEF Resolved

(* A save that writes stores every row of the table under a key of its own  *)
(* and leaves every other file alone.                                       *)
THEOREM WriteCorrect == Spec => WriteStoresTable
<1> DEFINE Stores ==
  (disk' # disk /\ jsonSource' # jsonSource) =>
    /\ disk' = [disk EXCEPT ![configDir][selected] = jsonSource']
    /\ jsonSource'.default = jsonSource.default
    /\ Cardinality(DOMAIN jsonSource'.maps) = Len(rows)
    /\ \A i \in DOMAIN rows :
         /\ rows[i].key \in DOMAIN jsonSource'.maps
         /\ rows[i].resource = jsonSource'.maps[rows[i].key].resource
         /\ rows[i].owner = Resolved(jsonSource', rows[i].key)
<1>1. PageInv /\ [Next]_vars => [Stores]_vars
  BY OnlyWriteChangesBoth, WriteStores
<1> QED BY <1>1, PageInvariant, PTL DEF Spec, WriteStoresTable
=============================================================================
