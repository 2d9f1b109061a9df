------------------------------- MODULE ViewEdit -------------------------------
(***************************************************************************)
(* The view-and-edit page of the resource mapping tool: its controller, the *)
(* table of mappings, the combo box of config files, and the files.         *)
(*                                                                         *)
(* The user acts on the page, a worker lists the files of a directory, and  *)
(* the signals it posts are delivered between two actions of the user.      *)
(*                                                                         *)
(* The account id and the region of a row are treated alike everywhere and  *)
(* are one value here, the owner; type and name are one, the resource.      *)
(***************************************************************************)
EXTENDS FunctionWorkers, FiniteSets, SequencesExt

CONSTANTS
  Dirs, Names,        \* directories, and names with the suffix of a config file
  Keys,               \* key names
  Resources,          \* what the type and name cells of a row hold together
  NoResource,         \* either is empty
  Owners,             \* owners that match the schema's patterns
  ConfiguredOwner,    \* account id and region of the configuration
  InitialDisks,       \* what the directories may hold at first
  OutsideFiles,       \* what another program may write into a file
  MaxRows, MaxEdits, MaxSearches, MaxOutside   \* bounds on rows and on actions

Empty == ""           \* an empty key, and an owner that is left out
BadOwner == "?"       \* an owner the schema's patterns refuse
NoFile == "no file"   \* the text of the combo box at index -1

(* A config file: one that does not exist, one that is not JSON (or has a   *)
(* key twice), or JSON: maps has the entries under AWSResourceMappings,     *)
(* default the owner at the root, which may be malformed or missing, and    *)
(* kind tells whether the schema has anything else against the file (its    *)
(* version, a property that is missing): all that a save makes anew.        *)
File(kind, default, maps) == [kind |-> kind, default |-> default, maps |-> maps]
Absent == File("absent", Empty, <<>>)
Broken == File("broken", Empty, <<>>)
NoSource == File("empty", Empty, <<>>)     \* the empty dict
Readable(file) == file.kind \in {"sound", "flawed"}

(* validate_json_dict_according_to_json_schema *)
Accepted(file) == file.kind = "sound" /\ file.default \in Owners

Entries == [resource : Resources, owner : Owners \union {Empty, BadOwner}]
Mappings == UNION {[K -> Entries] : K \in SUBSET Keys}
Files == {Absent, Broken}
         \union {File(kind, o, m) : kind \in {"sound", "flawed"},
                                    o \in Owners \union {BadOwner, Empty}, m \in Mappings}

Statuses == {"Success", "Modified", "Failure"}
Rows == [key : Keys \union {Empty}, resource : Resources \union {NoResource},
         owner : Owners \union {BadOwner}, status : Statuses]

ASSUME ViewEditAssumption ==
  /\ IsFiniteSet(Dirs) /\ IsFiniteSet(Names) /\ IsFiniteSet(Keys)
  /\ NoFile \notin Names
  /\ Empty \notin Keys \union Owners
  /\ NoResource \notin Resources
  /\ BadOwner \notin Owners
  /\ ConfiguredOwner \in Owners
  /\ InitialDisks \subseteq [Dirs -> [Names -> Files]]
  /\ OutsideFiles \subseteq Files
  /\ {MaxRows, MaxEdits, MaxSearches, MaxOutside} \subseteq Nat

VARIABLES
  disk,         \* disk[d][n]: the file n of directory d
  configDir,    \* configuration.config_directory
  configFiles,  \* configuration.config_files, which the combo box shows
  selected,     \* the combo box's text
  jsonSource,   \* _config_file_json_source
  rows,         \* the table model's resources
  view,         \* the page shown: "notification" (no save button) or "table"
  enabled,      \* whether the table page and the save button react
  notice,       \* the notification frame: "none" (hidden), "error" or "saved"
  listedDir,    \* history: the directory configFiles was read from
  unheard,      \* history: directories whose last search raised an exception
  disturbed,    \* history: files changed, since they were read, by another
                \* program or by a write that failed half-way
  used          \* how many edits, searches and outside changes were made

fileVars == <<disk, disturbed>>
listVars == <<configDir, configFiles, selected, listedDir>>
tableVars == <<jsonSource, rows, enabled, notice>>
viewEditVars == <<fileVars, listVars, tableVars, view, unheard, used>>
vars == <<viewEditVars, workerVars>>

Row(key, resource, owner, status) ==
  [key |-> key, resource |-> resource, owner |-> owner, status |-> status]

-----------------------------------------------------------------------------
(* json_utils *)

(* Mutant: unsaved rows are compared with the saved ones only. *)
InvalidRowsAgainstSaved(rs) ==
  LET Saved == {i \in DOMAIN rs : rs[i].status = "Success"}
  IN {i \in DOMAIN rs :
        \/ rs[i].key = Empty \/ rs[i].resource = NoResource \/ rs[i].owner = BadOwner
        \/ i \notin Saved /\ \E j \in Saved : rs[i].key = rs[j].key}

(* The rows validate_resources_according_to_json_schema refuses: a cell is  *)
(* empty or the owner malformed, or an unsaved row has the key of a saved   *)
(* one or of another unsaved one.                                           *)
InvalidRows(rs) ==
  LET Saved == {i \in DOMAIN rs : rs[i].status = "Success"}
      Clashes(i, j) == i # j /\ rs[i].key = rs[j].key
  IN {i \in DOMAIN rs :
        \/ rs[i].key = Empty \/ rs[i].resource = NoResource
        \/ rs[i].owner = BadOwner
        \/ i \notin Saved /\ \E j \in DOMAIN rs : Clashes(i, j)}

(* convert_resources_to_json_dict: the default is kept as it was read, also *)
(* a malformed one; an owner equal to it is left out; of two rows with one  *)
(* key the later is kept.                                                   *)
ToJson(rs, source) ==
  LET Latest(k) == CHOOSE i \in DOMAIN rs :
                   rs[i].key = k /\ \A j \in DOMAIN rs : rs[j].key = k => j <= i
      Abbreviated(o) == IF o = source.default THEN Empty ELSE o
  IN File("sound", source.default,
          [k \in {rs[i].key : i \in DOMAIN rs} |->
             [resource |-> rs[Latest(k)].resource, owner |-> Abbreviated(rs[Latest(k)].owner)]])

Resolved(file, k) == IF file.maps[k].owner = Empty THEN file.default ELSE file.maps[k].owner

(* convert_json_dict_to_resources *)
FromJson(file) ==
  LET keys == SetToSeq(DOMAIN file.maps)
  IN [i \in DOMAIN keys |->
        Row(keys[i], file.maps[keys[i]].resource, Resolved(file, keys[i]), "Success")]

(* override_resource_status *)
Override(rs, S, status) ==
  [i \in DOMAIN rs |-> IF i \in S THEN [rs[i] EXCEPT !.status = status] ELSE rs[i]]

(* find_files_with_suffix_under_directory *)
Found(d) == {n \in Names : disk[d][n] # Absent}

-----------------------------------------------------------------------------
(* _select_config_file reads the file into the table: the page is enabled   *)
(* first and disabled again when the file cannot be read or is rejected;    *)
(* what was read is kept as the source before it is validated.              *)
Loading(file, source) ==
  LET loaded == IF Accepted(file) THEN FromJson(file) ELSE <<>>
      refused == InvalidRows(loaded)
  IN [source  |-> IF Readable(file) THEN file ELSE source,
      rows    |-> Override(loaded, refused, "Failure"),
      enabled |-> Accepted(file),
      notice  |-> IF Accepted(file) /\ refused = {} THEN "none" ELSE "error"]

LoadFile(n) ==
  LET after == Loading(disk[configDir][n], jsonSource)
  IN /\ jsonSource' = after.source
     /\ rows' = after.rows
     /\ enabled' = after.enabled
     /\ notice' = after.notice
     /\ view' = "table"
     /\ disturbed' = disturbed \ {<<configDir, n>>}

(* Mutant: the combo box is not set back to index -1. *)
SetConfigFilesKeepsIndex(files) ==
  /\ configFiles' = files
  /\ IF Cardinality(files) = 1
     THEN /\ selected' = CHOOSE n \in files : TRUE
          /\ LoadFile(CHOOSE n \in files : TRUE)
     ELSE UNCHANGED <<selected, tableVars, view, disturbed>>

(* set_config_files: a single file is selected, and so read, at once.       *)
SetConfigFiles(files) ==
  /\ configFiles' = files
  /\ IF Cardinality(files) = 1
     THEN /\ selected' = CHOOSE n \in files : TRUE
          /\ LoadFile(CHOOSE n \in files : TRUE)
     ELSE /\ selected' = NoFile
          /\ UNCHANGED <<tableVars, view, disturbed>>

Init ==
  /\ disk \in InitialDisks
  /\ configDir \in Dirs
  /\ listedDir = configDir
  /\ configFiles = Found(configDir)
  /\ IF Cardinality(configFiles) = 1
     THEN LET n == CHOOSE n \in configFiles : TRUE
              after == Loading(disk[configDir][n], NoSource)
          IN /\ selected = n
             /\ jsonSource = after.source /\ rows = after.rows
             /\ enabled = after.enabled /\ notice = after.notice
             /\ view = "table"
     ELSE /\ selected = NoFile
          /\ jsonSource = NoSource /\ rows = <<>> /\ enabled = TRUE /\ notice = "none"
          /\ view = "notification"
  /\ unheard = {} /\ disturbed = {}
  /\ used = [edits |-> 0, searches |-> 0, outside |-> 0]
  /\ WorkersInit

-----------------------------------------------------------------------------
(* The user chooses a file. *)
SelectConfigFile(n) ==
  /\ n \in configFiles /\ n # selected
  /\ selected' = n
  /\ LoadFile(n)
  /\ UNCHANGED <<disk, configDir, configFiles, listedDir, unheard, used, workerVars>>

(* Mutant: the table is not reset when the search starts. *)
OpenFileDialogKeepsRows(d) ==
  /\ used.searches < MaxSearches
  /\ used' = [used EXCEPT !.searches = @ + 1]
  /\ d # configDir
  /\ configDir' = d
  /\ view' = "notification"
  /\ jsonSource' = NoSource
  /\ Start([kind |-> "list", arg |-> d])
  /\ UNCHANGED <<fileVars, configFiles, selected, listedDir, rows, enabled, notice, unheard,
                 running, posted>>

(* Mutant: the search is given the directory shown before. *)
OpenFileDialogOldDirectory(d) ==
  /\ used.searches < MaxSearches
  /\ used' = [used EXCEPT !.searches = @ + 1]
  /\ d # configDir
  /\ configDir' = d
  /\ view' = "notification"
  /\ jsonSource' = NoSource
  /\ rows' = <<>>
  /\ Start([kind |-> "list", arg |-> configDir])
  /\ UNCHANGED <<fileVars, configFiles, selected, listedDir, enabled, notice, unheard,
                 running, posted>>

(* _open_file_dialog and _start_search_config_files_async *)
OpenFileDialog(d) ==
  /\ used.searches < MaxSearches
  /\ used' = [used EXCEPT !.searches = @ + 1]
  /\ d # configDir
  /\ configDir' = d
  /\ view' = "notification"
  /\ jsonSource' = NoSource
  /\ rows' = <<>>
  /\ Start([kind |-> "list", arg |-> d])
  /\ UNCHANGED <<fileVars, configFiles, selected, listedDir, enabled, notice, unheard,
                 running, posted>>

(* The button is visible while no file was found. *)
RescanConfigDirectory ==
  /\ configFiles = {}
  /\ SetConfigFiles(Found(configDir))
  /\ listedDir' = configDir
  /\ UNCHANGED <<disk, configDir, unheard, used, workerVars>>

Editing ==
  /\ view = "table" /\ enabled
  /\ used.edits < MaxEdits
  /\ used' = [used EXCEPT !.edits = @ + 1]
  /\ UNCHANGED <<fileVars, listVars, jsonSource, enabled, notice, view, unheard, workerVars>>

AddTableRow ==
  /\ Editing
  /\ Len(rows) < MaxRows
  /\ rows' = Append(rows, Row(Empty, NoResource, ConfiguredOwner, "Modified"))

(* _set_resource_attribute: one cell changes, or is emptied (an owner then  *)
(* is one the patterns refuse), and the row becomes unsaved.                *)
SetResourceAttribute(i, row) ==
  /\ Editing
  /\ row \in {[rows[i] EXCEPT !.key = k] : k \in Keys \union {Empty}}
             \union {[rows[i] EXCEPT !.resource = r] : r \in Resources \union {NoResource}}
             \union {[rows[i] EXCEPT !.owner = o] : o \in Owners \union {BadOwner}}
  /\ row # rows[i]
  /\ rows' = [rows EXCEPT ![i] = [row EXCEPT !.status = "Modified"]]

(* remove_resources: the rows left keep their order.                        *)
DeleteTableRow(S) ==
  /\ Editing
  /\ S # {}
  /\ \E kept \in [1 .. Len(rows) - Cardinality(S) -> DOMAIN rows \ S] :
       /\ \A i, j \in DOMAIN kept : i < j => kept[i] < kept[j]
       /\ rows' = [j \in DOMAIN kept |-> rows[kept[j]]]

(* The signal of the import page: rows without a key are added.             *)
AddImportResourcesReceiver(resources) ==
  rows' = rows \o [i \in DOMAIN resources |->
                     Row(Empty, resources[i], ConfiguredOwner, "Modified")]

-----------------------------------------------------------------------------
(* _save_changes: rows that do not pass are marked and nothing is saved.    *)
SaveChanges ==
  /\ view = "table" /\ enabled
  /\ UNCHANGED <<listVars, enabled, view, unheard, used, workerVars>>

RefuseInvalidRows ==
  /\ SaveChanges
  /\ InvalidRows(rows) # {}
  /\ rows' = Override(rows, InvalidRows(rows), "Failure")
  /\ notice' = "error"
  /\ UNCHANGED <<fileVars, jsonSource>>

Saved ==
  /\ rows' = Override(rows, DOMAIN rows, "Success")
  /\ notice' = "saved"

(* Without a source, or with one whose root has no owner, the conversion    *)
(* raises a KeyError that nobody catches: nothing changes, so what follows  *)
(* asks for that owner.                                                     *)
Convertible ==
  /\ SaveChanges
  /\ InvalidRows(rows) = {}
  /\ jsonSource.default # Empty

(* Nothing is written when the table converts to what was read.             *)
SkipWrite ==
  /\ Convertible
  /\ ToJson(rows, jsonSource) = jsonSource
  /\ Saved
  /\ UNCHANGED <<fileVars, jsonSource>>

WriteJsonFile ==
  /\ Convertible
  /\ selected # NoFile
  /\ LET json == ToJson(rows, jsonSource)
     IN /\ json # jsonSource
        /\ disk' = [disk EXCEPT ![configDir][selected] = json]
        /\ jsonSource' = json
  /\ disturbed' = disturbed \ {<<configDir, selected>>}
  /\ Saved

(* write_into_json_file: the file cannot be opened (without a selection its *)
(* path is the directory), or it was emptied by then.                       *)
WriteFails ==
  /\ Convertible
  /\ ToJson(rows, jsonSource) # jsonSource
  /\ notice' = "error"
  /\ UNCHANGED <<jsonSource, rows>>
  /\ \/ UNCHANGED fileVars
     \/ /\ selected # NoFile
        /\ disk' = [disk EXCEPT ![configDir][selected] = Broken]
        /\ disturbed' = disturbed \union {<<configDir, selected>>}

-----------------------------------------------------------------------------
(* The pool's thread lists the files of the directory it was given.         *)
BeginSearch ==
  \E worker \in [kind : {"list"}, arg : Dirs] :
    /\ Begin(worker, Found(worker.arg))
    /\ UNCHANGED viewEditVars

EndSearch ==
  /\ running # <<>>
  /\ running[1].kind = "list"
  /\ Emit(Outcome(running[1], running[2]))
  /\ unheard' = unheard \ {running[1].arg}
  /\ UNCHANGED <<fileVars, listVars, tableVars, view, used>>

(* An operating system error other than a missing directory ends the        *)
(* function, and only finished is heard.                                    *)
SearchRaises ==
  /\ running # <<>>
  /\ running[1].kind = "list"
  /\ Emit(Raised(running[1]))
  /\ unheard' = unheard \union {running[1].arg}
  /\ UNCHANGED <<fileVars, listVars, tableVars, view, used>>

ListConfigFilesCallback ==
  /\ Deliver("result", {"list"})
  /\ SetConfigFiles(Delivered.value)
  /\ listedDir' = Delivered.worker.arg
  /\ UNCHANGED <<disk, configDir, unheard, used, runQueue, running>>

(* _reset_page *)
SearchCompleteCallback ==
  /\ Deliver("finished", {"list"})
  /\ notice' = "none"
  /\ enabled' = TRUE
  /\ UNCHANGED <<fileVars, listVars, jsonSource, rows, view, unheard, used, runQueue, running>>

(* Another program writes a file, or removes it.                            *)
OutsideChange(d, n) ==
  /\ used.outside < MaxOutside
  /\ used' = [used EXCEPT !.outside = @ + 1]
  /\ \E file \in OutsideFiles \ {disk[d][n]} : disk' = [disk EXCEPT ![d][n] = file]
  /\ disturbed' = disturbed \union {<<d, n>>}
  /\ UNCHANGED <<listVars, tableVars, view, unheard, workerVars>>

-----------------------------------------------------------------------------
UserStep ==
  \/ \E n \in Names : SelectConfigFile(n)
  \/ \E d \in Dirs : OpenFileDialog(d)
  \/ RescanConfigDirectory
  \/ AddTableRow
  \/ \E i \in DOMAIN rows, row \in Rows : SetResourceAttribute(i, row)
  \/ \E S \in SUBSET DOMAIN rows : DeleteTableRow(S)
  \/ RefuseInvalidRows \/ SkipWrite \/ WriteJsonFile \/ WriteFails

SearchStep ==
  \/ BeginSearch \/ EndSearch \/ SearchRaises
  \/ ListConfigFilesCallback \/ SearchCompleteCallback

Next ==
  \/ UserStep \/ SearchStep
  \/ \E d \in Dirs, n \in Names : OutsideChange(d, n)

Spec == Init /\ [][Next]_vars

(* The pool's thread and the event loop keep running; nobody has to act.    *)
FairSpec == Spec /\ WF_vars(SearchStep)

-----------------------------------------------------------------------------
(* Every variable keeps its type. *)
TypeOK ==
  /\ disk \in [Dirs -> [Names -> Files]]
  /\ configDir \in Dirs /\ listedDir \in Dirs /\ unheard \subseteq Dirs
  /\ configFiles \subseteq Names
  /\ selected \in configFiles \union {NoFile}
  /\ jsonSource \in Files \union {NoSource}
  /\ rows \in Seq(Rows)
  /\ view \in {"notification", "table"} /\ enabled \in BOOLEAN
  /\ notice \in {"none", "error", "saved"}
  /\ disturbed \subseteq Dirs \X Names
  /\ used \in [edits : 0 .. MaxEdits, searches : 0 .. MaxSearches, outside : 0 .. MaxOutside]

(* A row marked as saved is in the selected file with what it shows, unless *)
(* the file was changed from outside, or by a failed write, since: across   *)
(* loads, edits, saves and searches that end while the user works.  Of a    *)
(* file that cannot be read it says nothing: a save of one may write        *)
(* nothing and mark its rows all the same.  The page accepts the file when  *)
(* it reads it again, with one exception: a default that is malformed is    *)
(* kept by the save of a file the page should have locked.                  *)
(* (override_all_resources_status, _set_resource_attribute, reset_view)     *)
SuccessRowsStored ==
  LET file == disk[configDir][selected]
  IN (selected # NoFile /\ <<configDir, selected>> \notin disturbed /\ Readable(file)) =>
       \A i \in DOMAIN rows : rows[i].status = "Success" =>
         /\ Accepted(file) \/ file.default = BadOwner
         /\ rows[i].key \in DOMAIN file.maps
         /\ rows[i].resource = file.maps[rows[i].key].resource
         /\ rows[i].owner = Resolved(file, rows[i].key)

(* A save that writes stores every row of the table, none under the key of  *)
(* another and each with its own owner, keeps the file's default and leaves *)
(* every other file alone.  (_convert_and_write_to_json and what the rows'  *)
(* validation lets through)                                                 *)
WriteStoresTable ==
  [][(disk' # disk /\ jsonSource' # jsonSource) =>
       /\ disk' = [disk EXCEPT ![configDir][selected] = jsonSource']
       /\ jsonSource'.default = jsonSource.default
       /\ Cardinality(DOMAIN jsonSource'.maps) = Len(rows)
       /\ \A i \in DOMAIN rows :
            /\ rows[i].key \in DOMAIN jsonSource'.maps
            /\ rows[i].resource = jsonSource'.maps[rows[i].key].resource
            /\ rows[i].owner = Resolved(jsonSource', rows[i].key)]_vars

(* Once no search is under way the combo box lists the directory chosen     *)
(* last, whatever searches overlapped, unless the search of that directory  *)
(* raised an exception.  (one thread, results delivered in order)           *)
IdleListingCurrent ==
  Idle => (listedDir = configDir \/ configDir \in unheard)

(* A chosen directory is listed in the end, or its search failed unheard.   *)
ListingCatchesUp == <>[](listedDir = configDir \/ configDir \in unheard)

(* A selected file of the listed directory that was not loaded, because it  *)
(* cannot be read or breaks the schema, stays closed to editing and saving. *)
(* (set_table_view_page_interactions_enabled)                               *)
RejectedFileLocked ==
  (/\ view = "table" /\ listedDir = configDir /\ selected # NoFile
   /\ <<configDir, selected>> \notin disturbed
   /\ ~Accepted(disk[configDir][selected])) => ~enabled
=============================================================================
