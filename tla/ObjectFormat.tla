------------------------------ MODULE ObjectFormat ------------------------------
(***************************************************************************)
(* The tree of an object becomes a linear stream and a tree again.         *)
(* write_object walks the object in preorder, attributes before elements,  *)
(* and puts down headers and attribute names only; the payload of a vector *)
(* is deferred, as a pointer, to the list of its kind, and flush_payloads  *)
(* appends the lists one after the other.  qdata_deserializer walks the    *)
(* headers in the same order, keeps a pointer to each vector it has made,  *)
(* and fills the vectors from the payloads at the end.                     *)
(*                                                                         *)
(* The nodes of an object are numbered in preorder, so an object is read   *)
(* back when node k is built as the k-th and has name k and payload k.     *)
(* Headers, names and payloads are units of the stream here: BlockCodec    *)
(* is about their bytes, HeaderCodec about the encoding of a header.  When *)
(* the reader meets another unit than it expects, no action is enabled and *)
(* TLC reports a deadlock.                                                 *)
(***************************************************************************)
EXTENDS Naturals, Sequences, SequencesExt, FiniteSetsExt

CONSTANTS
    MaxNodes,     \* bound on the nodes of an object
    Types,        \* the types of its nodes
    MaxDepths,    \* the values of max_depth
    Temporaries   \* whether traits and iterators may return nodes by value

\* checked_max_nesting_depth rejects 0.
ASSUME DepthAssumption == MaxDepths \subseteq Nat \ {0}
ASSUME TypesAssumption ==
    Types \subseteq {"nil", "logical", "integer", "real", "complex", "string", "raw", "list"}
ASSUME ObjectsAssumption == MaxNodes \in Nat \ {0} /\ Temporaries \in BOOLEAN

VARIABLES
    obj,      \* the object that is written
    limits,   \* max_depth of the writer and of the reader
    mode,     \* "write", "flush", "read", "payloads", then an outcome
    stack,    \* the nested write_object calls, each with the children it has left
    queues,   \* string_payloads_, complex_payloads_ ... of the writer
    stream,   \* what has been written
    cursor,   \* the units of the stream that have been read
    rstack,   \* the nested read_into calls, each with the children it has left
    lists,    \* string_payloads_, complex_payloads_ ... of the reader
    built     \* the nodes of the object that is read

writer == <<stack, queues, stream>>
reader == <<cursor, rstack, lists, built>>
vars == <<obj, limits, mode, writer, reader>>

\* The groups of payloads, in the order in which they are stored; logical
\* vectors share a group with integer vectors.
Groups == <<"string", "complex", "real", "integer", "raw">>
GroupOf(type) == IF type = "logical" THEN "integer" ELSE type
NoPayloads == [g \in Range(Groups) |-> << >>]

\* The first group that is not exhausted, and 0 if all are.
NextGroup(q) ==
    LET open == {i \in DOMAIN Groups : q[Groups[i]] # << >>}
    IN  IF open = {} THEN 0 ELSE Min(open)

--------------------------------------------------------------------------------
(* Objects *)

\* parent is a tree whose nodes are numbered in preorder.
Preorder(parent, n) ==
    /\ parent[1] = 0
    /\ \A j \in 2..n :
         /\ parent[j] \in 1..(j - 1)
         /\ \A i \in (parent[j] + 1)..(j - 1) : parent[i] >= parent[j]

\* Attributes come before elements, and only lists have elements.
Roles(parent, role, type, n) ==
    \A j \in 2..n :
       /\ type[parent[j]] # "nil"
       /\ role[j] = "element" =>
            /\ type[parent[j]] = "list"
            /\ \A i \in (j + 1)..n : parent[i] = parent[j] => role[i] = "element"

Init ==
    /\ \E n \in 1..MaxNodes :
         \E parent \in [1..n -> 0..(n - 1)] :
           /\ Preorder(parent, n)
           /\ \E type \in [1..n -> Types], role \in [2..n -> {"attribute", "element"}] :
                /\ Roles(parent, role, type, n)
                /\ \E full \in SUBSET {k \in 1..n : type[k] \notin {"nil", "list"}},
                      temps \in (IF Temporaries THEN SUBSET (2..n) ELSE {{}}) :
                     obj = [parent |-> parent, role |-> role, type |-> type,
                            full |-> full, temps |-> temps]
    /\ limits \in [write : MaxDepths, read : MaxDepths]
    /\ mode = "write"
    /\ stack = << >> /\ queues = NoPayloads /\ stream = << >>
    /\ cursor = 0 /\ rstack = << >> /\ lists = NoPayloads /\ built = << >>

Nodes == DOMAIN obj.type
Attributes(k) == {j \in Nodes \ {1} : obj.parent[j] = k /\ obj.role[j] = "attribute"}
Elements(k) == {j \in Nodes \ {1} : obj.parent[j] = k /\ obj.role[j] = "element"}

--------------------------------------------------------------------------------
(* The serializer *)

\* begin_*_vector(size, attr_count); all that counts of a vector's size is
\* whether it has a payload.
Header(k) ==
    [unit |-> "header", type |-> obj.type[k],
     length |-> IF obj.type[k] = "list" THEN Cardinality(Elements(k))
                ELSE IF k \in obj.full THEN 1 ELSE 0,
     attributes |-> Cardinality(Attributes(k))]
Name(k) == [unit |-> "name", of |-> k]

\* A vector that is, or is part of, a temporary is gone when its payload is
\* emitted: what is stored is nobody's payload, 0.
Dangling[j \in Nodes] == j \in obj.temps \/ (j # 1 /\ Dangling[obj.parent[j]])
Payload(k) == [unit |-> "payload", of |-> IF Dangling[k] THEN 0 ELSE k]

\* Mutant of AtLimit: a level too many.
AtLimitPlusOne(calls, max_depth) == Len(calls) > max_depth

\* enter_object_scope and recursion_depth_guard
AtLimit(calls, max_depth) == Len(calls) >= max_depth

\* A frame of the recursion on node k, which has these children left.
Frame(k) == [node |-> k, attributes |-> Attributes(k), elements |-> Elements(k)]

WriteRoot ==
    /\ mode = "write" /\ stream = << >>
    /\ stack' = <<Frame(1)>>
    /\ stream' = <<Header(1)>>
    /\ UNCHANGED <<obj, limits, mode, queues, reader>>

\* write_attributes: the next attribute's name and value.
WriteAttribute ==
    /\ mode = "write" /\ stack # << >> /\ ~AtLimit(stack, limits.write)
    /\ LET left == Last(stack).attributes
           k    == Min(left)
       IN  /\ left # {}
           /\ stack' = Append([stack EXCEPT ![Len(stack)].attributes = left \ {k}], Frame(k))
           /\ stream' = stream \o <<Name(k), Header(k)>>
    /\ UNCHANGED <<obj, limits, mode, queues, reader>>

\* write_internal_list, write_iterable_list: the next element.
WriteElement ==
    /\ mode = "write" /\ stack # << >> /\ ~AtLimit(stack, limits.write)
    /\ LET left == Last(stack).elements
           k    == Min(left)
       IN  /\ Last(stack).attributes = {} /\ left # {}
           /\ stack' = Append([stack EXCEPT ![Len(stack)].elements = left \ {k}], Frame(k))
           /\ stream' = Append(stream, Header(k))
    /\ UNCHANGED <<obj, limits, mode, queues, reader>>

\* enter_object_scope throws.  A part of the stream has been written.
WriteTooDeep ==
    /\ mode = "write" /\ stack # << >> /\ AtLimit(stack, limits.write)
    /\ Last(stack).attributes \cup Last(stack).elements # {}
    /\ mode' = "write_depth"
    /\ UNCHANGED <<obj, limits, writer, reader>>

\* The end of write_object: the payload of a vector that is not empty is
\* deferred, after those of the attributes.
WriteEnd ==
    /\ mode = "write" /\ stack # << >>
    /\ Last(stack).attributes \cup Last(stack).elements = {}
    /\ LET k == Last(stack).node
       IN  queues' = IF k \in obj.full
                       THEN [queues EXCEPT ![GroupOf(obj.type[k])] = Append(@, k)]
                       ELSE queues
    /\ stack' = Front(stack)
    /\ mode' = IF Len(stack) = 1 THEN "flush" ELSE "write"
    /\ UNCHANGED <<obj, limits, stream, reader>>

\* flush_payloads, the next payload.  Only a payload list knows of the object.
FlushPayload ==
    /\ mode = "flush" /\ NextGroup(queues) # 0
    /\ LET g == Groups[NextGroup(queues)]
       IN  /\ stream' = Append(stream, Payload(Head(queues[g])))
           /\ queues' = [queues EXCEPT ![g] = Tail(@)]
    /\ UNCHANGED <<obj, limits, mode, stack, reader>>

\* finish(); the stream is handed to a reader.
FlushDone ==
    /\ mode = "flush" /\ NextGroup(queues) = 0
    /\ mode' = "read"
    /\ UNCHANGED <<obj, limits, writer, reader>>

WriterStep ==
    \/ WriteRoot \/ WriteAttribute \/ WriteElement \/ WriteTooDeep \/ WriteEnd
    \/ FlushPayload \/ FlushDone

--------------------------------------------------------------------------------
(* The deserializer *)

Unit(i) == stream[cursor + i]
Has(i, unit) == cursor + i <= Len(stream) /\ Unit(i).unit = unit

\* The object that read_into makes of header h, and the frame of its call.
NewNode(h, parent, role, name) ==
    [type |-> h.type, full |-> h.type # "list" /\ h.length > 0, parent |-> parent,
     role |-> role, name |-> name, payload |-> 0]
NewFrame(h) ==
    [node |-> Len(built) + 1, attributes |-> h.attributes,
     elements |-> IF h.type = "list" THEN h.length ELSE 0]

ReadRoot ==
    /\ mode = "read" /\ built = << >>
    /\ Has(1, "header")
    /\ built' = <<NewNode(Unit(1), 0, "root", 0)>>
    /\ rstack' = <<NewFrame(Unit(1))>>
    /\ cursor' = cursor + 1
    /\ UNCHANGED <<obj, limits, mode, writer, lists>>

\* read_attributes: the next attribute's name, then its value.
ReadAttribute ==
    /\ mode = "read" /\ rstack # << >> /\ ~AtLimit(rstack, limits.read)
    /\ Last(rstack).attributes > 0
    /\ Has(1, "name") /\ Has(2, "header")
    /\ built' = Append(built, NewNode(Unit(2), Last(rstack).node, "attribute", Unit(1).of))
    /\ rstack' = Append([rstack EXCEPT ![Len(rstack)].attributes = @ - 1], NewFrame(Unit(2)))
    /\ cursor' = cursor + 2
    /\ UNCHANGED <<obj, limits, mode, writer, lists>>

\* The loop of the LIST case: the next element.
ReadElement ==
    /\ mode = "read" /\ rstack # << >> /\ ~AtLimit(rstack, limits.read)
    /\ Last(rstack).attributes = 0 /\ Last(rstack).elements > 0
    /\ Has(1, "header")
    /\ built' = Append(built, NewNode(Unit(1), Last(rstack).node, "element", 0))
    /\ rstack' = Append([rstack EXCEPT ![Len(rstack)].elements = @ - 1], NewFrame(Unit(1)))
    /\ cursor' = cursor + 1
    /\ UNCHANGED <<obj, limits, mode, writer, lists>>

\* recursion_depth_guard calls cleanup_and_throw.
ReadTooDeep ==
    /\ mode = "read" /\ rstack # << >> /\ AtLimit(rstack, limits.read)
    /\ Last(rstack).attributes + Last(rstack).elements > 0
    /\ mode' = "read_depth"
    /\ UNCHANGED <<obj, limits, writer, reader>>

\* The end of read_into: the vector, not empty, waits for its payload.
ReadEnd ==
    /\ mode = "read" /\ rstack # << >>
    /\ Last(rstack).attributes + Last(rstack).elements = 0
    /\ LET k == Last(rstack).node
       IN  lists' = IF built[k].full
                      THEN [lists EXCEPT ![GroupOf(built[k].type)] = Append(@, k)]
                      ELSE lists
    /\ rstack' = Front(rstack)
    /\ mode' = IF Len(rstack) = 1 THEN "payloads" ELSE "read"
    /\ UNCHANGED <<obj, limits, writer, cursor, built>>

\* Mutant of ReadPayload: the groups are read in another order.
ReadPayloadReversed ==
    /\ mode = "payloads" /\ NextGroup(lists) # 0
    /\ Has(1, "payload")
    /\ LET g == Groups[Max({i \in DOMAIN Groups : lists[Groups[i]] # << >>})]
       IN  /\ built' = [built EXCEPT ![Head(lists[g])].payload = Unit(1).of]
           /\ lists' = [lists EXCEPT ![g] = Tail(@)]
    /\ cursor' = cursor + 1
    /\ UNCHANGED <<obj, limits, mode, writer, rstack>>

\* read_object_data: the next payload goes where the next pointer points.
ReadPayload ==
    /\ mode = "payloads" /\ NextGroup(lists) # 0
    /\ Has(1, "payload")
    /\ LET g == Groups[NextGroup(lists)]
       IN  /\ built' = [built EXCEPT ![Head(lists[g])].payload = Unit(1).of]
           /\ lists' = [lists EXCEPT ![g] = Tail(@)]
    /\ cursor' = cursor + 1
    /\ UNCHANGED <<obj, limits, mode, writer, rstack>>

ReadDone ==
    /\ mode = "payloads" /\ NextGroup(lists) = 0
    /\ mode' = "ok"
    /\ UNCHANGED <<obj, limits, writer, reader>>

ReaderStep ==
    \/ ReadRoot \/ ReadAttribute \/ ReadElement \/ ReadTooDeep \/ ReadEnd
    \/ ReadPayload \/ ReadDone

--------------------------------------------------------------------------------
Terminated == mode \in {"ok", "write_depth", "read_depth"} /\ UNCHANGED vars

Next == WriterStep \/ ReaderStep \/ Terminated

Spec == Init /\ [][Next]_vars

--------------------------------------------------------------------------------
(* Properties *)

\* What is read is what was written: the nodes in their places, each with its
\* own name and, whatever the types and the nesting, its own payload.
RoundTrip ==
    mode = "ok" =>
      /\ cursor = Len(stream)
      /\ Len(built) = Cardinality(Nodes)
      /\ \A k \in Nodes :
           LET role == IF k = 1 THEN "root" ELSE obj.role[k]
           IN  built[k] = [type |-> obj.type[k], full |-> k \in obj.full,
                           parent |-> obj.parent[k], role |-> role,
                           name |-> IF role = "attribute" THEN k ELSE 0,
                           payload |-> IF k \in obj.full THEN k ELSE 0]

\* How deep a node is nested, in lists and in attributes.
Depth[k \in Nodes] == IF k = 1 THEN 1 ELSE Depth[obj.parent[k]] + 1
Nesting == Max({Depth[k] : k \in Nodes})

\* max_depth counts "nested list structure and recursively nested attribute
\* values" alike on both sides: either side rejects what is deeper than its
\* limit and nothing else, so equal limits never make an object unreadable; and
\* no recursion is deeper than its limit.
DepthAgreement ==
    /\ Len(stack) <= limits.write /\ Len(rstack) <= limits.read
    /\ mode = "write_depth" => Nesting > limits.write
    /\ mode \in {"flush", "read", "payloads", "ok", "read_depth"} => Nesting <= limits.write
    /\ mode = "read_depth" => Nesting > limits.read
    /\ mode = "ok" => Nesting <= limits.read

\* "Any range-like type whose element type is itself writable serializes
\* automatically as a qdata list": its payloads are stored, also when its
\* iterator returns the elements by value.
RangesSerialize ==
    mode = "ok" => \A k \in obj.full : built[k].payload = k
================================================================================
