----------------------------- MODULE SplitParser -----------------------------
(****************************************************************************)
(* split_read_from_yaml of src/ps2_rc/rc_splits.c: a state machine driven   *)
(* by libyaml's events.  The file is written along, event by event, in the  *)
(* format the comment in include/ps2rc/splits.h shows: a sequence of        *)
(* mappings, each with a FunctionSignature, perhaps Patches, and scalars.   *)
(* One action is one turn of the parser's loop: what the file holds next,   *)
(* and everything the parser does about it.  The parser sees an event's     *)
(* type and a scalar's text, never where in the file it stands.             *)
(****************************************************************************)
EXTENDS Integers, Sequences

CONSTANTS
    SplitKey,      \* scalar keys of a split that the file uses
    SignatureKey,  \* and of a FunctionSignature
    Value,         \* texts of those and of parameters
    PatchValue,    \* texts of a patch's scalars
    Register,      \* registers the file names for parameters
    A0,            \* the register every parameter is given
    Null,          \* zeroed memory: no value
    Text,          \* the section of a split that names none
    Initial,       \* INITIAL_SPLIT_BUFFER_COUNT, 8192 in the code
    MaxParameters, \* parameters a signature has at most; the array holds 16
    MaxPatches,    \* patches a split has at most; the array holds 32
    MaxSplits      \* splits in a file

Key == SplitKey \cup SignatureKey

ASSUME KeyAssumption ==
    /\ SplitKey \subseteq {"StartAddress", "EndAddress", "Section", "VArgs"}
    /\ SignatureKey \subseteq {"Name", "ReturnType", "Generate", "IsLibC", "VArgs"}
ASSUME ValueAssumption == Null \notin Value \cup PatchValue
ASSUME BoundAssumption == /\ Initial \in Nat \ {0} /\ MaxParameters \in Nat
                          /\ MaxPatches \in Nat /\ MaxSplits \in Nat

VARIABLES
    where,              \* the innermost thing open in the file
    draft, file,        \* the split being written, the splits written
    state, split,       \* the parser's state and the split it fills
    splitCount, splits, \* what it will return
    allocated, status   \* size of out_splits; reading, done or failed

author == <<where, draft, file>>
parser == <<state, split, splitCount, splits, allocated, status>>
vars   == <<where, draft, file, state, split, splitCount, splits, allocated, status>>

Nothing     == [k \in Key |-> Null]
NoParameter == [Type |-> Null, Name |-> Null, Register |-> Null]
NoPatch     == [Index |-> Null, Value |-> Null]
\* A patch of the file, with the key it gives first.
NewPatch    == [Index |-> Null, Value |-> Null, first |-> "none"]

EmptySplit  == [fields |-> Nothing,
                parameters |-> [n \in 0 .. MaxParameters |-> NoParameter],
                parameterCount |-> 0,
                patches |-> [n \in 0 .. MaxPatches |-> NoPatch],
                patchCount |-> 0]
EmptyDraft  == [fields |-> Nothing, parameters |-> <<>>, patches |-> <<>>,
                has |-> {}]

Init == /\ where = "file" /\ draft = EmptyDraft /\ file = <<>>
        /\ state = "ROOT" /\ split = EmptySplit
        /\ splitCount = 0 /\ splits = <<>>
        /\ allocated = Initial /\ status = "reading"

-----------------------------------------------------------------------------
(* The parser's reactions. *)

Down == [ROOT |-> "SPLIT", SPLIT |-> "SIGNATURE", SIGNATURE |-> "PARAMETER",
         PARAMETER |-> "PARAMETER", PATCH_ARRAY |-> "PATCH", PATCH |-> "PATCH"]
Up   == [ROOT |-> "ROOT", SPLIT |-> "ROOT", SIGNATURE |-> "SPLIT",
         PARAMETER |-> "SIGNATURE", PATCH_ARRAY |-> "SPLIT", PATCH |-> "PATCH_ARRAY"]

\* YAML_MAPPING_START_EVENT
StartMapping ==
    /\ state' = Down[state]
    /\ split' = IF state = "SIGNATURE"
                THEN [split EXCEPT !.parameters[split.parameterCount].Register = A0]
                ELSE split
    /\ UNCHANGED <<splitCount, splits, allocated, status>>

\* Faulty: a parameter is counted when it opens and when it closes.
CountedTwice ==
    CASE state = "PARAMETER"   -> [split EXCEPT !.parameterCount = @ + 2]
      [] state = "PATCH_ARRAY" -> [split EXCEPT !.patchCount = @ + 1]
      [] OTHER                 -> split
Counted == CASE state = "PARAMETER"   -> [split EXCEPT !.parameterCount = @ + 1]
             [] state = "PATCH_ARRAY" -> [split EXCEPT !.patchCount = @ + 1]
             [] OTHER                 -> split

Defaulted(s) == IF "Section" \in Key /\ s.fields["Section"] = Null
                THEN [s EXCEPT !.fields["Section"] = Text] ELSE s

\* Faulty: > for >= when the buffer is full.
EndMappingGrowingLate ==
    /\ state' = Up[state]
    /\ IF Up[state] = "ROOT"
       THEN /\ allocated' = IF splitCount > Initial THEN Initial * 2 ELSE allocated
            /\ splits' = Append(splits, Defaulted(Counted))
            /\ splitCount' = splitCount + 1
            /\ split' = EmptySplit
       ELSE /\ split' = Counted
            /\ UNCHANGED <<allocated, splits, splitCount>>
    /\ UNCHANGED status

\* YAML_MAPPING_END_EVENT: a return to the root emits the split.  The buffer
\* grows to twice a capacity that is never brought up to date.
EndMapping ==
    /\ state' = Up[state]
    /\ IF Up[state] = "ROOT"
       THEN /\ allocated' = IF splitCount >= Initial THEN Initial * 2 ELSE allocated
            /\ splits' = Append(splits, Defaulted(Counted))
            /\ splitCount' = splitCount + 1
            /\ split' = EmptySplit
       ELSE /\ split' = Counted
            /\ UNCHANGED <<allocated, splits, splitCount>>
    /\ UNCHANGED status

\* Faulty: every sequence end falls through.
EndAnySequence == EndMapping

\* YAML_SEQUENCE_END_EVENT falls through to the above, or is ignored.
EndSequence == IF state = "PATCH_ARRAY" THEN EndMapping ELSE UNCHANGED parser

\* Faulty: a patch is not moved on from.
SamePatchSlot == split.patchCount

\* A patch whose slot already has a value goes to the next slot.
PatchSlot == IF split.patches[split.patchCount].Value # Null
             THEN split.patchCount + 1 ELSE split.patchCount

\* A scalar that is a key; its value is read in the same turn.  The Register of
\* a parameter is passed over.
Scalar(key, v) ==
    /\ split' =
          CASE key \in (CASE state = "SPLIT" -> SplitKey
                          [] state = "SIGNATURE" -> SignatureKey
                          [] OTHER -> {}) ->
                 [split EXCEPT !.fields[key] = v]
            [] state = "PARAMETER" /\ key \in {"Type", "Name"} ->
                 [split EXCEPT !.parameters[split.parameterCount][key] = v]
            [] state = "PATCH" ->
                 [split EXCEPT !.patchCount = PatchSlot, !.patches[PatchSlot][key] = v]
            [] OTHER -> split
    /\ UNCHANGED <<state, splitCount, splits, allocated, status>>

SwitchToPatches == /\ state' = "PATCH_ARRAY"
                   /\ UNCHANGED <<split, splitCount, splits, allocated, status>>

-----------------------------------------------------------------------------
(* The file, and the parser with it. *)

Reading(place) == status = "reading" /\ where = place

OpenSplit == /\ Reading("file") /\ Len(file) < MaxSplits
             /\ where' = "split"
             /\ StartMapping
             /\ UNCHANGED <<draft, file>>

\* "FunctionSignature" and "Parameters" are passed over by the parser, and so
\* is the event that opens a sequence.
KeySignature == /\ Reading("split") /\ "signature" \notin draft.has
                /\ where' = "signature?"
                /\ draft' = [draft EXCEPT !.has = @ \cup {"signature"}]
                /\ UNCHANGED <<file, parser>>

OpenSignature == /\ Reading("signature?")
                 /\ where' = "signature"
                 /\ StartMapping
                 /\ UNCHANGED <<draft, file>>

KeyParameters == /\ Reading("signature") /\ "parameters" \notin draft.has
                 /\ where' = "parameters"
                 /\ draft' = [draft EXCEPT !.has = @ \cup {"parameters"}]
                 /\ UNCHANGED <<file, parser>>

OpenParameter == /\ Reading("parameters") /\ Len(draft.parameters) < MaxParameters
                 /\ where' = "parameter"
                 /\ draft' = [draft EXCEPT !.parameters = Append(@, NoParameter)]
                 /\ StartMapping
                 /\ UNCHANGED file

KeyPatches == /\ Reading("split") /\ "patches" \notin draft.has
              /\ where' = "patches"
              /\ draft' = [draft EXCEPT !.has = @ \cup {"patches"}]
              /\ SwitchToPatches
              /\ UNCHANGED file

OpenPatch == /\ Reading("patches") /\ Len(draft.patches) < MaxPatches
             /\ where' = "patch"
             /\ draft' = [draft EXCEPT !.patches = Append(@, NewPatch)]
             /\ StartMapping
             /\ UNCHANGED file

\* Scalars of a split or of its signature.
WriteField(key, v) ==
    /\ \/ Reading("split") /\ key \in SplitKey
       \/ Reading("signature") /\ key \in SignatureKey
    /\ draft.fields[key] = Null
    /\ draft' = [draft EXCEPT !.fields[key] = v]
    /\ Scalar(key, v)
    /\ UNCHANGED <<where, file>>

WriteParameter(key, v) ==
    LET n == Len(draft.parameters)
    IN  /\ Reading("parameter") /\ draft.parameters[n][key] = Null
        /\ draft' = [draft EXCEPT !.parameters[n][key] = v]
        /\ Scalar(key, v)
        /\ UNCHANGED <<where, file>>

Edited(p, key, v) ==
    [p EXCEPT ![key] = v, !.first = IF @ = "none" THEN key ELSE @]

WritePatch(key, v) ==
    LET n == Len(draft.patches)
    IN  /\ Reading("patch") /\ draft.patches[n][key] = Null
        /\ draft' = [draft EXCEPT !.patches[n] = Edited(@, key, v)]
        /\ Scalar(key, v)
        /\ UNCHANGED <<where, file>>

CloseParameter == /\ Reading("parameter")
                  /\ draft.parameters[Len(draft.parameters)].Type # Null
                  /\ where' = "parameters"
                  /\ EndMapping
                  /\ UNCHANGED <<draft, file>>

ClosePatch == /\ Reading("patch")
              /\ LET last == draft.patches[Len(draft.patches)]
                 IN  last.Index # Null /\ last.Value # Null
              /\ where' = "patches"
              /\ EndMapping
              /\ UNCHANGED <<draft, file>>

CloseSequence == /\ \/ Reading("parameters") /\ where' = "signature"
                    \/ Reading("patches") /\ where' = "split"
                 /\ EndSequence
                 /\ UNCHANGED <<draft, file>>

CloseSignature == /\ Reading("signature")
                  /\ where' = "split"
                  /\ EndMapping
                  /\ UNCHANGED <<draft, file>>

CloseSplit == /\ Reading("split")
              /\ where' = "file"
              /\ file' = Append(file, draft)
              /\ draft' = EmptyDraft
              /\ EndMapping

\* The end of the stream, or a syntax error libyaml reports: the loop is left
\* and what was collected is returned.
Finish == /\ \/ Reading("file") /\ status' = "done"
             \/ status = "reading" /\ status' = "failed"
          /\ UNCHANGED <<author, state, split, splitCount, splits, allocated>>

Stopped == status # "reading" /\ UNCHANGED vars

Next == \/ OpenSplit \/ KeySignature \/ OpenSignature \/ KeyParameters
        \/ OpenParameter \/ KeyPatches \/ OpenPatch
        \/ \E v \in Value : \/ \E key \in Key : WriteField(key, v)
                            \/ \E key \in {"Type", "Name"} : WriteParameter(key, v)
        \/ \E v \in PatchValue, key \in {"Index", "Value"} : WritePatch(key, v)
        \/ \E r \in Register : WriteParameter("Register", r)
        \/ CloseParameter \/ ClosePatch \/ CloseSequence
        \/ CloseSignature \/ CloseSplit \/ Finish \/ Stopped

Spec == Init /\ [][Next]_vars

-----------------------------------------------------------------------------
(* Properties. *)

States == {"ROOT", "SPLIT", "SIGNATURE", "PARAMETER", "PATCH_ARRAY", "PATCH"}

TypeOK ==
    /\ state \in States /\ status \in {"reading", "done", "failed"}
    /\ split.fields \in [Key -> Value \cup {Null, Text}]
    /\ split.parameterCount \in 0 .. MaxParameters
    /\ split.patchCount \in 0 .. MaxPatches + 1
    /\ splitCount \in Nat /\ splitCount = Len(splits)
    /\ allocated \in Nat

\* The parser, which never looks at the nesting of the file, always knows where
\* in it it stands, and the shared sequence-end and mapping-end code never
\* leaves a level too early or too late.
Standing == CASE where = "file" -> "ROOT"
              [] where \in {"split", "signature?"} -> "SPLIT"
              [] where \in {"signature", "parameters"} -> "SIGNATURE"
              [] where = "parameter" -> "PARAMETER"
              [] where = "patches" -> "PATCH_ARRAY"
              [] where = "patch" -> "PATCH"
StateFollowsNesting == state = Standing

\* The splits collected are, one for one, the splits written, whatever the order
\* of the keys; that also holds of what is returned after a syntax error.  A
\* parameter keeps its Type and Name and stays with its split, but every one is
\* in A0, whatever Register the file names.  A patch keeps its Value and its
\* place.  Its Index it keeps only if that comes first: that of a late patch
\* goes to the next slot, where it stays if the next patch is late too and is
\* overwritten if not.  After a late patch that is the last, and of an empty
\* list, one slot too many is counted, without a value.
WrittenFields(d) == Defaulted(d).fields
InA0(p) == [p EXCEPT !.Register = A0]
Late(ps, n) == n \in DOMAIN ps /\ ps[n].first = "Value"
IndexKept(ps, n) ==
    IF n \in DOMAIN ps /\ ps[n].first = "Index" THEN ps[n].Index
    ELSE IF Late(ps, n - 1) THEN ps[n - 1].Index ELSE Null
ValueKept(ps, n) == IF n \in DOMAIN ps THEN ps[n].Value ELSE Null
Slot(ps, n) == [Index |-> IndexKept(ps, n), Value |-> ValueKept(ps, n)]
Extent(ps) == IF ps = <<>> \/ Late(ps, Len(ps)) THEN Len(ps) + 1 ELSE Len(ps)
WrittenPatches(d) == IF "patches" \in d.has
                     THEN [n \in 1 .. Extent(d.patches) |-> Slot(d.patches, n)]
                     ELSE <<>>
ParsedParameters(s) == [n \in 1 .. s.parameterCount |-> s.parameters[n - 1]]
ParsedPatches(s)    == [n \in 1 .. s.patchCount |-> s.patches[n - 1]]
Same(s, d) == /\ s.fields = WrittenFields(d)
              /\ ParsedParameters(s) =
                    [n \in DOMAIN d.parameters |-> InA0(d.parameters[n])]
              /\ ParsedPatches(s) = WrittenPatches(d)
ParsedAsWritten == /\ splitCount = Len(file)
                   /\ \A n \in 1 .. splitCount : Same(splits[n], file[n])

\* A file of up to twice the initial buffer is collected inside the buffer.
InsideBuffer == splitCount <= allocated

==============================================================================
