------------------------- MODULE MCResourceMappingTool -------------------------
(* Small instances of the resource mapping tool. *)
EXTENDS ResourceMappingTool

(* One function, one bucket in the region and one that is not, a stack of a *)
(* nested stack, two resources without a name and a bucket, and a stack     *)
(* that is not complete.                                                    *)
OneFunction == <<"f">>
NoTable == <<>>
TwoBuckets == <<[name |-> "b", location |-> ""], [name |-> "far", location |-> "eu-west-1"]>>
TwoStacks ==
  <<[stack |-> "s", status |-> "CREATE_COMPLETE",
     resources |-> <<Resource("AWS::CloudFormation::Stack", "n"),
                     Resource("AWS::Lambda::Function", ""), Resource("AWS::S3::Bucket", "b"),
                     Resource("AWS::Lambda::Function", "")>>],
    [stack |-> "failed", status |-> "CREATE_FAILED",
     resources |-> <<Resource("AWS::S3::Bucket", "b")>>]>>
Importable ==
  [type : Range(AWS_RESOURCE_TYPES) \union {AWS_RESOURCE_CLOUDFORMATION_STACK_TYPE, "AWS::CloudFormation::Stack"},
   name : {"f", "b", "far", "s", "failed", "n"}]

Valid(owner, maps) == File("sound", owner, maps)
Entry(owner) == [resource |-> Resource("AWS::Lambda::Function", "f"), owner |-> owner]

(* "north" has one file, "south" one that the schema rejects.               *)
TwoDirs ==
  {[north |-> [a |-> Valid("o1", [k1 |-> Entry("")])],
    south |-> [a |-> File("flawed", "o1", [k1 |-> Entry("")])]]}
NoChange == {}
=============================================================================
