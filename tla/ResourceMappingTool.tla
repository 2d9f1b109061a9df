-------------------------- MODULE ResourceMappingTool --------------------------
(***************************************************************************)
(* The two pages of the resource mapping tool together: one pool thread and *)
(* one event loop serve the searches of both, whichever page is shown, and  *)
(* the import page appends rows to the table of the other.                  *)
(***************************************************************************)
EXTENDS ViewEdit, ImportResources

ASSUME ToolAssumption == Loadable \subseteq Resources

toolVars == <<vars, importVars>>

ToolInit == Init /\ ImportInit

(* _switch_to_import_resources_page: its combo box is on the table page.    *)
SwitchPage(version) ==
  /\ view = "table" /\ enabled
  /\ SwitchToImportResourcesPage(version)
  /\ UNCHANGED vars

(* add_import_resources_sender is delivered at once: the rows are in the    *)
(* table, in any order, before the page is left.                            *)
ImportResources(S) ==
  /\ page = "import"
  /\ Len(rows) + Cardinality(UniqueResources(S)) <= MaxRows
  /\ AddImportResourcesReceiver(SetToSeq(UniqueResources(S)))
  /\ ImportSelected(S)
  /\ UNCHANGED <<fileVars, listVars, jsonSource, enabled, notice, view, unheard, used,
                 workerVars>>

ViewEditStep ==
  \/ page = "view_edit" /\ UserStep
  \/ SearchStep
  \/ \E d \in Dirs, n \in Names : OutsideChange(d, n)

ImportStep == ImportUserStep \/ RequestStep

ToolNext ==
  \/ ViewEditStep /\ UNCHANGED importVars
  \/ ImportStep /\ UNCHANGED viewEditVars
  \/ \E version \in RequestKinds : SwitchPage(version)
  \/ \E S \in SUBSET Nodes : ImportResources(S)

ToolSpec == ToolInit /\ [][ToolNext]_toolVars

(* The pool's thread and the event loop keep running; nobody has to act.    *)
BackgroundStep ==
  \/ SearchStep /\ UNCHANGED importVars
  \/ RequestStep /\ UNCHANGED viewEditVars

FairToolSpec == ToolSpec /\ WF_toolVars(BackgroundStep)

-----------------------------------------------------------------------------
(* An import keeps the rows of the table, whatever a search did to them     *)
(* meanwhile, and adds each selected resource once, however many searches   *)
(* listed it; and it adds no stack, neither beside what the stack holds nor *)
(* alone, with one exception: stacks listed late, by a search that the      *)
(* user left behind, are roots like others once a typed search is chosen    *)
(* (crossed, and no child in the tree).                                     *)
(* (_import_resources, deduplicate_selected_import_resources)               *)
ImportedOnce ==
  [][page = "import" /\ page' = "view_edit" /\ rows' # rows =>
       /\ Len(rows') > Len(rows) /\ SubSeq(rows', 1, Len(rows)) = rows
       /\ \A i, j \in Len(rows) + 1 .. Len(rows') :
            /\ rows'[i].key = Empty /\ rows'[i].status = "Modified"
            /\ i # j => rows'[i].resource # rows'[j].resource
            /\ (hasChild \/ ~crossed) =>
                 rows'[i].resource.type # AWS_RESOURCE_CLOUDFORMATION_STACK_TYPE]_toolVars

(* The loading page is left in the end, also when a request raises or the   *)
(* user searches again before the first search ended.                       *)
(* (finished is emitted in every case)                                      *)
LoadingEnds == mainView = "notification" ~> mainView = "tree"
=============================================================================
