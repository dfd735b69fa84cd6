---------------------------- MODULE ObjectTypes ----------------------------
(***************************************************************************)
(* The metadata of user-defined types (Conn.ObjectType of                  *)
(* internal/ttc/objtype.go): read from the data dictionary the first time a*)
(* batch with values of the type is built, the types of its attributes     *)
(* before it is complete, and kept for the life of the connection.         *)
(*                                                                         *)
(* The data dictionary is external: dictionary[t] is <<"missing">> or the list *)
(* of what the attributes of t are: another type, "scalar", or             *)
(* "unsupported".  The element of a collection is its only attribute.      *)
(***************************************************************************)
EXTENDS Naturals, Sequences, SequencesExt, FiniteSets

CONSTANTS
  Types,          \* names of types
  XmlType,        \* SYS.XMLTYPE, known without asking
  Dictionaries,   \* what the dictionary may hold
  MaxLookups,     \* bound: calls of ObjectType for a column
  MaxFaults       \* bound: queries of the dictionary that fail

ASSUME TypesAssumption ==
  /\ XmlType \in Types /\ {"scalar", "unsupported", "missing"} \cap Types = {}
  /\ \A d \in Dictionaries :
       /\ d \in [Types -> Seq(Types \cup {"scalar", "unsupported"}) \cup {<<"missing">>}]
       /\ d[XmlType] = <<>>

VARIABLES
  dictionary,
  cache,      \* objTypes.byName: "absent", "resolving" or "resolved"
  attrs,      \* Attrs (Element) of each type in the cache, as far as they are known
  frames,     \* the calls of ObjectType under way, the outermost first
  asked,      \* the type the column is of
  answer,     \* what the last lookup returned
  lookups, faults

typesVars == <<dictionary, cache, attrs, frames, asked, answer, lookups, faults>>

Quiet == frames = <<>>
Resolving == Last(frames)

\* Every call on the way out removes its own type, and only that.
FaultyReturnError(what) ==
  /\ cache' = [cache EXCEPT ![Resolving] = "absent"]
  /\ frames' = <<>> /\ answer' = what
  /\ UNCHANGED <<dictionary, attrs, asked, lookups>>

ReturnError(what) ==
  /\ cache' = [t \in Types |-> IF t \in Range(frames) THEN "absent" ELSE cache[t]]
  /\ frames' = <<>> /\ answer' = what
  /\ UNCHANGED <<dictionary, attrs, asked, lookups>>

\* A type nobody has asked for: the entry is made before the dictionary is read.
StartReading(t) ==
  /\ cache[t] = "absent" /\ t /= XmlType
  /\ cache' = [cache EXCEPT ![t] = "resolving"]
  /\ attrs' = [attrs EXCEPT ![t] = <<>>]
  /\ frames' = Append(frames, t)

\* A type that needs no reading: cached before, or XMLTYPE.
IsKnown(t) == t = XmlType \/ cache[t] = "resolved"
Keep(t) == cache' = [cache EXCEPT ![t] = "resolved"]

\* flushObjects: a column with values, its type not known to the sink.
LookUp(t) ==
  /\ Quiet /\ lookups < MaxLookups
  /\ lookups' = lookups + 1 /\ asked' = t
  /\ \/ StartReading(t) /\ answer' = "none"
     \/ cache[t] = "resolved" /\ answer' = "found" /\ UNCHANGED <<cache, attrs, frames>>
  /\ UNCHANGED <<dictionary, faults>>

\* A query of the dictionary fails: both are made before the first attribute is looked at.
QueryFails ==
  /\ ~ Quiet /\ faults < MaxFaults /\ attrs[Resolving] = <<>>
  /\ faults' = faults + 1
  /\ ReturnError("failed")

IsMissing == dictionary[Resolving] = <<"missing">>

NotFound ==
  /\ ~ Quiet /\ IsMissing
  /\ ReturnError("missing") /\ UNCHANGED faults

\* What the next attribute of the innermost type is.
NextAttr == dictionary[Resolving][Len(attrs[Resolving]) + 1]
HasNext == ~ Quiet /\ ~ IsMissing /\ Len(attrs[Resolving]) < Len(dictionary[Resolving])

Attach(a) == attrs' = [attrs EXCEPT ![Resolving] = Append(@, a)]

ScalarAttr ==
  /\ HasNext /\ NextAttr = "scalar"
  /\ Attach("scalar")
  /\ UNCHANGED <<dictionary, cache, frames, asked, answer, lookups, faults>>

UnsupportedAttr ==
  /\ HasNext /\ NextAttr = "unsupported"
  /\ ReturnError("unsupported") /\ UNCHANGED faults

KnownAttr ==
  /\ HasNext /\ NextAttr \in Types /\ IsKnown(NextAttr)
  /\ Keep(NextAttr) /\ Attach(NextAttr)
  /\ UNCHANGED <<dictionary, frames, asked, answer, lookups, faults>>

NestedAttr ==
  /\ HasNext /\ NextAttr \in Types /\ StartReading(NextAttr)
  /\ UNCHANGED <<dictionary, asked, answer, lookups, faults>>

RecursiveAttr ==
  /\ HasNext /\ NextAttr \in Types /\ cache[NextAttr] = "resolving"
  /\ ReturnError("recursive") /\ UNCHANGED faults

\* All attributes known: the type is complete, and the caller's attribute has it.
Complete ==
  /\ ~ Quiet /\ ~ IsMissing /\ ~ HasNext
  /\ cache' = [cache EXCEPT ![Resolving] = "resolved"]
  /\ frames' = Front(frames)
  /\ IF Len(frames) = 1 THEN answer' = "found" /\ UNCHANGED attrs
     ELSE /\ attrs' = [attrs EXCEPT ![frames[Len(frames) - 1]] = Append(@, Resolving)]
          /\ UNCHANGED answer
  /\ UNCHANGED <<dictionary, asked, lookups, faults>>

TypesInit ==
  /\ dictionary \in Dictionaries
  /\ cache = [t \in Types |-> "absent"] /\ attrs = [t \in Types |-> <<>>]
  /\ frames = <<>> /\ asked = XmlType /\ answer = "none"
  /\ lookups = 0 /\ faults = 0

TypesNext ==
  \/ \E t \in Types \ {XmlType} : LookUp(t)
  \/ QueryFails \/ NotFound
  \/ ScalarAttr \/ UnsupportedAttr \/ KnownAttr \/ NestedAttr \/ RecursiveAttr
  \/ Complete

TypesSpec == TypesInit /\ [][TypesNext]_typesVars

-----------------------------------------------------------------------------

AttrsOf(t) == Range(dictionary[t])

\* Types whose attributes are of them again.
Closed(S) == \A t \in S : AttrsOf(t) \cap Types \subseteq S

\* What the dictionary says types are made of, themselves included: the least
\* such set.
Within(S) == {t \in Types : \A C \in SUBSET Types : S \subseteq C /\ Closed(C) => t \in C}

Parts(t) == IF t = XmlType THEN {t} ELSE Within({t})
IsRecursive(t) == \E u \in Parts(t) : u \in Within(AttrsOf(u) \cap Types)
Lacks(t, what) == \E u \in Parts(t) : what \in AttrsOf(u)

\* Between two lookups no half-read type is left in the cache: what is there has all its
\* attributes in order, and their types have too, whichever lookups failed before and
\* wherever.  What a lookup says is true of the dictionary: a type is reported as
\* recursive, missing or unsupported only if it is, also after one that failed.
TypesAreWhole ==
  Quiet =>
    /\ \A t \in Types \ {XmlType} : cache[t] /= "absent" =>
         /\ cache[t] = "resolved"
         /\ attrs[t] = dictionary[t]
         /\ \A u \in Parts(t) : cache[u] = "resolved"
    /\ answer = "found" => cache[asked] = "resolved" /\ ~ IsRecursive(asked) /\ ~ Lacks(asked, "missing")
    /\ answer = "recursive" => IsRecursive(asked)
    /\ answer \in {"missing", "unsupported"} => Lacks(asked, answer)
    /\ cache[XmlType] /= "resolving"

=============================================================================
