---------------------------- MODULE ImportResources ----------------------------
(***************************************************************************)
(* The import page of the resource mapping tool: it lists the resources of  *)
(* one type, or the stacks and what each holds, in a tree from which rows   *)
(* are imported.  The requests run on the pool's thread; the page's header, *)
(* with the type box, search, import and back, stays usable meanwhile.      *)
(***************************************************************************)
EXTENDS FunctionWorkers, Integers, SequencesExt

CONSTANTS
  Region,           \* configuration.region
  Functions, Tables,        \* names of Lambda functions and DynamoDB tables
  Buckets,          \* S3 buckets of every region: sequence of [name, location]
  StackSummaries,   \* CloudFormation stacks: sequence of [stack, status, resources]
  MaxImportSearches, MaxVisits   \* bounds on searches and on visits of the page

Unnamed == ""   \* a type, a name or a location that is not given

Resource(type, name) == [type |-> type, name |-> name]

AWS_RESOURCE_TYPES == <<"AWS::Lambda::Function", "AWS::DynamoDB::Table", "AWS::S3::Bucket">>
(* Not the type that CloudFormation gives a nested stack, which has a       *)
(* capital F, so that a nested stack is a resource like the others.         *)
AWS_RESOURCE_CLOUDFORMATION_STACK_TYPE == "AWS::Cloudformation::Stack"

StackRoot(s) == Resource(AWS_RESOURCE_CLOUDFORMATION_STACK_TYPE, s.stack)

(* CLOUDFORMATION_STACKS_STATUS_FILTERS *)
CompleteStatuses == {"CREATE_COMPLETE", "ROLLBACK_COMPLETE", "UPDATE_COMPLETE",
                     "IMPORT_COMPLETE", "IMPORT_ROLLBACK_COMPLETE"}

IsNamed(resource) == resource.type # Unnamed /\ resource.name # Unnamed

(* What AWS answers is in sequences, a stack's without a named resource     *)
(* twice or one of the type above.                                          *)
ASSUME ImportAssumption ==
  /\ {MaxImportSearches, MaxVisits} \subseteq Nat
  /\ Functions \in Seq(Range(Functions)) /\ Tables \in Seq(Range(Tables))
  /\ Buckets \in Seq(Range(Buckets)) /\ StackSummaries \in Seq(Range(StackSummaries))
  /\ \A s \in Range(StackSummaries) :
       /\ s.resources \in Seq(Range(s.resources))
       /\ \A i, j \in DOMAIN s.resources :
            (IsNamed(s.resources[i]) /\ s.resources[i] = s.resources[j]) => i = j
       /\ \A r \in Range(s.resources) : r.type # AWS_RESOURCE_CLOUDFORMATION_STACK_TYPE

VARIABLES
  page,           \* the page of the tool: "view_edit" or "import"
  searchVersion,  \* search_version: "typed", "cfn" or "none"
  hasChild,       \* has_child of the tree: whether resources go below a stack
  typeIndex,      \* typed_resources_combobox.currentIndex(), -1 at first
  tree,           \* the tree model's roots, each with its children
  mainView,       \* "notification" (loading) or "tree"
  crossed,        \* history: the type box or the page changed while a search was
                  \* under way whose results go into this tree
  importUsed      \* how many searches and visits were made

importVars ==
  <<page, searchVersion, hasChild, typeIndex, tree, mainView, crossed, importUsed>>

ImportInit ==
  /\ page = "view_edit" /\ searchVersion = "none" /\ hasChild = TRUE
  /\ typeIndex = -1 /\ tree = <<>> /\ mainView = "tree" /\ crossed = FALSE
  /\ importUsed = [searches |-> 0, visits |-> 0]

RequestKinds == {"typed", "cfn"}

(* A search of one of these kinds is under way. *)
Searching(kinds) ==
  \/ \E i \in DOMAIN runQueue : runQueue[i].kind \in kinds
  \/ running # <<>> /\ running[1].kind \in kinds
  \/ \E i \in DOMAIN posted : posted[i].worker.kind \in kinds

-----------------------------------------------------------------------------
(* _switch_to_import_resources_page, then the setter of search_version      *)
SwitchToImportResourcesPage(version) ==
  /\ page = "view_edit"
  /\ importUsed.visits < MaxVisits
  /\ importUsed' = [importUsed EXCEPT !.visits = @ + 1]
  /\ page' = "import"
  /\ searchVersion' = version
  /\ hasChild' = (version = "cfn")
  /\ UNCHANGED <<typeIndex, tree, mainView, crossed>>

(* Mutant: positions counted from one. *)
SelectTypeFromOne(i) ==
  /\ page = "import" /\ searchVersion = "typed"
  /\ i \in DOMAIN AWS_RESOURCE_TYPES /\ i # typeIndex
  /\ typeIndex' = i
  /\ crossed' = (crossed \/ Searching({"typed"}))
  /\ UNCHANGED <<page, searchVersion, hasChild, tree, mainView, importUsed>>

(* The user picks a type, which is only shown for a typed search.           *)
SelectType(i) ==
  /\ page = "import" /\ searchVersion = "typed"
  /\ i \in DOMAIN AWS_RESOURCE_TYPES /\ i - 1 # typeIndex
  /\ typeIndex' = i - 1
  /\ crossed' = (crossed \/ Searching({"typed"}))
  /\ UNCHANGED <<page, searchVersion, hasChild, tree, mainView, importUsed>>

(* _start_search_resources_async *)
StartSearchResourcesAsync ==
  /\ page = "import"
  /\ searchVersion \in RequestKinds
  /\ importUsed.searches < MaxImportSearches
  /\ importUsed' = [importUsed EXCEPT !.searches = @ + 1]
  /\ tree' = <<>>
  /\ mainView' = "notification"
  /\ Start([kind |-> searchVersion, arg |-> <<>>])
  /\ crossed' = (crossed /\ Searching(RequestKinds))
  /\ UNCHANGED <<page, searchVersion, hasChild, typeIndex, running, posted>>

(* reset_page, which leaves the searches under way alone                    *)
ResetPage ==
  /\ tree' = <<>>
  /\ mainView' = "tree"
  /\ typeIndex' = -1
  /\ crossed' = Searching(RequestKinds)
  /\ searchVersion' = "none"

BackToViewEditPage ==
  /\ page = "import"
  /\ page' = "view_edit"
  /\ ResetPage
  /\ UNCHANGED <<hasChild, importUsed>>

-----------------------------------------------------------------------------
(* The nodes of the tree: a root is <<i, 0>>, its children are <<i, j>>.    *)
Nodes == UNION {{i} \X (0 .. Len(tree[i].children)) : i \in DOMAIN tree}
IsRoot(n) == n[2] = 0
At(n) == IF IsRoot(n) THEN tree[n[1]].resource ELSE tree[n[1]].children[n[2]]

(* Mutant: a stack is a resource like the others. *)
UniqueResourcesWithStacks(S) == {At(n) : n \in S}

(* deduplicate_selected_import_resources: a set, without the stacks when    *)
(* the tree has children.                                                   *)
UniqueResources(S) == {At(n) : n \in {n \in S : hasChild => ~IsRoot(n)}}

(* _import_resources hands the resources selected on screen over and goes   *)
(* back; without any it shows a message.                                    *)
ImportSelected(S) ==
  /\ mainView = "tree"
  /\ UniqueResources(S) # {}
  /\ BackToViewEditPage

-----------------------------------------------------------------------------
(* Mutant: resources go below the first root. *)
LoadBelowFirst(nodes, resource) ==
  CASE resource.type = AWS_RESOURCE_CLOUDFORMATION_STACK_TYPE \/ ~hasChild ->
         Append(nodes, [resource |-> resource, children |-> <<>>])
    [] OTHER ->
         IF nodes = <<>> THEN nodes
         ELSE [nodes EXCEPT ![1].children = Append(@, resource)]

(* ResourceTreeModel.load_resource: a root, or a child of the last root; a  *)
(* child without a root is dropped.                                         *)
LoadResource(nodes, resource) ==
  CASE resource.type = AWS_RESOURCE_CLOUDFORMATION_STACK_TYPE \/ ~hasChild ->
         Append(nodes, [resource |-> resource, children |-> <<>>])
    [] OTHER ->
         IF nodes = <<>> THEN nodes
         ELSE [nodes EXCEPT ![Len(nodes)].children = Append(@, resource)]

(* What the tree becomes when resources are loaded one after another.       *)
Loaded(nodes, resources) ==
  LET after[n \in 0 .. Len(resources)] ==
        IF n = 0 THEN nodes ELSE LoadResource(after[n - 1], resources[n])
  IN after[Len(resources)]

(* _request_typed_resources_callback reads the type box from the pool's     *)
(* thread.                                                                  *)
BeginRequest ==
  \/ Begin([kind |-> "typed", arg |-> <<>>], typeIndex) /\ UNCHANGED importVars
  \/ Begin([kind |-> "cfn", arg |-> <<>>], <<>>) /\ UNCHANGED importVars

(* What a loop over s appends that passes over what is not in S.            *)
Passing(s, S) ==
  LET passed[n \in 0 .. Len(s)] ==
        IF n = 0 THEN <<>>
        ELSE IF s[n] \in S THEN Append(passed[n - 1], s[n]) ELSE passed[n - 1]
  IN passed[Len(s)]

(* list_s3_buckets: AWS names the buckets of every region; us-east-1 is     *)
(* answered as no location, which equals no region.                         *)
InRegion(bucket) ==
  \/ bucket.location = Region /\ bucket.location # Unnamed
  \/ bucket.location = Unnamed /\ Region = "us-east-1"
ListS3Buckets ==
  LET here == Passing(Buckets, {b \in Range(Buckets) : InRegion(b)})
  IN [i \in DOMAIN here |-> here[i].name]

(* list_cloudformation_stacks                                               *)
IsComplete(s) == s.status \in CompleteStatuses
ListCloudformationStacks ==
  Passing(StackSummaries, {s \in Range(StackSummaries) : IsComplete(s)})

(* list_cloudformation_stack_resources asks page by page until there is no  *)
(* resume token, and passes over what has no type or no name yet.           *)
ListCloudformationStackResources(s) ==
  Passing(s.resources, {r \in Range(s.resources) : IsNamed(r)})

(* _request_cfn_resources_callback and _request_typed_resources_callback    *)
Answer(worker, read) ==
  CASE worker.kind = "cfn" ->
         LET stacks == ListCloudformationStacks
         IN [i \in DOMAIN stacks |->
               [stack |-> stacks[i].stack,
                resources |-> ListCloudformationStackResources(stacks[i])]]
    [] worker.kind = "typed" ->
         IF read = -1 THEN <<>> ELSE <<Functions, Tables, ListS3Buckets>>[read + 1]

(* Whatever a search can load into the tree.                                *)
Loadable ==
  {Resource(type, name) : type \in Range(AWS_RESOURCE_TYPES),
                          name \in Range(Functions) \union Range(Tables) \union {b.name : b \in Range(Buckets)}}
  \union UNION {{StackRoot(s)} \union {r \in Range(s.resources) : IsNamed(r)} : s \in Range(StackSummaries)}

Requesting == running # <<>> /\ running[1].kind \in RequestKinds /\ UNCHANGED importVars

EndRequest == Requesting /\ Emit(Outcome(running[1], Answer(running[1], running[2])))

(* A service's client error is shown and gives None, which loads nothing.   *)
RequestRefused == Requesting /\ Emit(Outcome(running[1], <<>>))

(* Any other exception goes to the error signal, which nobody hears.        *)
RequestRaises == Requesting /\ Emit(Raised(running[1]))

(* _load_typed_resources_callback reads the type box again; index -1 is the *)
(* last element of a Python list.                                           *)
LoadTypedResourcesCallback ==
  /\ Deliver("result", {"typed"})
  /\ LET types == AWS_RESOURCE_TYPES
         type == IF typeIndex = -1 THEN types[Len(types)] ELSE types[typeIndex + 1]
         names == Delivered.value
     IN tree' = Loaded(tree, [i \in DOMAIN names |-> Resource(type, names[i])])
  /\ UNCHANGED <<page, searchVersion, hasChild, typeIndex, mainView, crossed, importUsed,
                 runQueue, running>>

(* A stack and then what it holds, or nothing when it holds nothing.        *)
Block(s) == IF s.resources = <<>> THEN <<>> ELSE <<StackRoot(s)>> \o s.resources

LoadedStacks(nodes, stacks) ==
  LET after[n \in 0 .. Len(stacks)] ==
        IF n = 0 THEN nodes ELSE Loaded(after[n - 1], Block(stacks[n]))
  IN after[Len(stacks)]

(* _load_cfn_resources_callback                                             *)
LoadCfnResourcesCallback ==
  /\ Deliver("result", {"cfn"})
  /\ tree' = LoadedStacks(tree, Delivered.value)
  /\ UNCHANGED <<page, searchVersion, hasChild, typeIndex, mainView, crossed, importUsed,
                 runQueue, running>>

(* _search_complete_callback *)
RequestCompleteCallback ==
  /\ Deliver("finished", RequestKinds)
  /\ mainView' = "tree"
  /\ UNCHANGED <<page, searchVersion, hasChild, typeIndex, tree, crossed, importUsed,
                 runQueue, running>>

ImportUserStep ==
  \/ \E i \in DOMAIN AWS_RESOURCE_TYPES : SelectType(i) /\ UNCHANGED workerVars
  \/ StartSearchResourcesAsync
  \/ BackToViewEditPage /\ UNCHANGED workerVars

RequestStep ==
  \/ BeginRequest \/ EndRequest \/ RequestRefused \/ RequestRaises
  \/ LoadTypedResourcesCallback \/ LoadCfnResourcesCallback \/ RequestCompleteCallback
-----------------------------------------------------------------------------
(* Every variable keeps its type. *)
ImportTypeOK ==
  /\ page \in {"view_edit", "import"}
  /\ searchVersion \in RequestKinds \union {"none"}
  /\ {hasChild, crossed} \subseteq BOOLEAN
  /\ typeIndex \in -1 .. Len(AWS_RESOURCE_TYPES) - 1
  /\ \A i \in DOMAIN tree : DOMAIN tree[i] = {"resource", "children"}
  /\ mainView \in {"notification", "tree"}
  /\ importUsed \in [searches : 0 .. MaxImportSearches, visits : 0 .. MaxVisits]

(* Unless the type box or the page changed under a search, the tree shows   *)
(* what AWS has, though searches of one visit overlap: stacks that are      *)
(* complete with all that each holds, or else the resources of the type     *)
(* they are listed under, buckets of this region only.                      *)
(* (_load_..._callback, load_resource, currentIndex read twice)             *)
TreeFaithful ==
  ~crossed => \A i \in DOMAIN tree :
    LET type == tree[i].resource.type
        name == tree[i].resource.name
        children == tree[i].children
    IN \/ /\ hasChild
          /\ \E s \in Range(StackSummaries) :
               /\ tree[i].resource = StackRoot(s) /\ s.status \in CompleteStatuses
               /\ Range(children) = {r \in Range(s.resources) : r.type # Unnamed /\ r.name # Unnamed}
               /\ IsInjective(children)
       \/ /\ ~hasChild /\ children = <<>>
          /\ \/ type = "AWS::Lambda::Function" /\ name \in Range(Functions)
             \/ type = "AWS::DynamoDB::Table" /\ name \in Range(Tables)
             \/ /\ type = "AWS::S3::Bucket"
                /\ \E b \in Range(Buckets) :
                     b.name = name /\ Region = (IF b.location = Unnamed THEN "us-east-1" ELSE b.location)
=============================================================================
