--------------------------- MODULE RMAPTargetNodes --------------------------
(***************************************************************************)
(* The descriptions of target nodes and of their memory objects, as they   *)
(* are read from a configuration file, and the database an initiator looks *)
(* names up in (RMAPMemoryObject, RMAPTargetNode, RMAPTargetNodeDB).       *)
(*                                                                         *)
(* An XML element is a function from the tags it has to their values; the  *)
(* text of an access mode is the set of the key words found in it.         *)
(***************************************************************************)
EXTENDS Integers, Sequences, SequencesExt

(* setAccessMode(string): the first key word that matches decides, and     *)
(* only when none of them does are the rights added up.                    *)
AccessModeOf(words) ==
    IF words \cap {"ro", "wo", "rw", "readwrite", "readonly", "writeonly"} = {}
    THEN (IF words \cap {"readable", "read"} # {} THEN {"Readable"} ELSE {})
         \cup (IF words \cap {"writable", "write"} # {} THEN {"Writable"} ELSE {})
         \cup (IF "rmwable" \in words THEN {"RMWable"} ELSE {})
    ELSE IF "ro" \in words THEN {"Readable"}
    ELSE IF "wo" \in words THEN {"Writable"}
    ELSE IF words \cap {"rw", "readwrite"} # {} THEN {"Readable", "Writable"}
    ELSE IF "readonly" \in words THEN {"Readable"}
    ELSE {"Writable"}

(* The access mode of an object that names none.                           *)
DefaultAccessMode == {"Readable", "Writable", "RMWable"}

IsReadable(object) == "Readable" \in object.accessMode
IsWritable(object) == "Writable" \in object.accessMode

(* RMAPMemoryObject::constructFromXMLNode(): nothing when a tag that is    *)
(* required is missing (InvalidXMLEntry).                                  *)
RequiredObjectTags == {"ExtendedAddress", "Address", "Length"}
ConstructMemoryObject(element) ==
    IF RequiredObjectTags \subseteq DOMAIN element
    THEN {[id |-> element["id"], address |-> element["Address"],
           length |-> element["Length"],
           accessMode |-> IF "AccessMode" \in DOMAIN element
                          THEN AccessModeOf(element["AccessMode"])
                          ELSE DefaultAccessMode]}
    ELSE {}

(* Later elements replace earlier ones of the same name, as in a std::map. *)
ByName(records) ==
    [name \in {r.id : r \in ToSet(records)} |->
        records[SelectLastInSeq(records, LAMBDA r : r.id = name)]]

(* RMAPTargetNode::constructFromXMLNode(): one faulty object refuses the   *)
(* whole node.                                                             *)
ConstructTargetNode(element) ==
    LET objects == element["RMAPMemoryObject"]
        made(i) == ConstructMemoryObject(objects[i])
    IN IF \E i \in DOMAIN objects : made(i) = {} THEN {}
       ELSE {[id |-> element["id"],
              targetLogicalAddress |-> element["TargetLogicalAddress"],
              targetSpaceWireAddress |-> element["TargetSpaceWireAddress"],
              replyAddress |-> element["ReplyAddress"],
              defaultKey |-> element["Key"],
              initiatorLogicalAddress |->
                  IF "InitiatorLogicalAddress" \in DOMAIN element
                  THEN <<element["InitiatorLogicalAddress"]>> ELSE <<>>,
              objects |-> ByName([i \in DOMAIN objects |-> CHOOSE o \in made(i) : TRUE])]}

(* RMAPTargetNodeDB(filename): an error anywhere in the file, and the      *)
(* database is empty.                                                      *)
ConstructDatabase(file) ==
    LET made(i) == ConstructTargetNode(file[i])
    IN IF \E i \in DOMAIN file : made(i) = {} THEN [name \in {} |-> {}]
       ELSE ByName([i \in DOMAIN file |-> CHOOSE n \in made(i) : TRUE])

=============================================================================
