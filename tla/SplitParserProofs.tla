-------------------------- MODULE SplitParserProofs --------------------------
(****************************************************************************)
(* Proofs about SplitParser, for files of any size and keys in any order.   *)
(* Two inductive invariants: Nested, of the parser's state and its buffer,  *)
(* and Drafted, of what it has understood.                                  *)
(****************************************************************************)
EXTENDS SplitParser, SequenceTheorems, TLAPS

(* What is written, and what is read.                                       *)

Parameter == [Type : Value \cup {Null}, Name : Value \cup {Null},
              Register : Register \cup {A0, Null}]
PatchOf   == [Index : PatchValue \cup {Null}, Value : PatchValue \cup {Null}]
Given     == [Index : PatchValue \cup {Null}, Value : PatchValue \cup {Null},
              first : {"none", "Index", "Value"}]
Sections  == {"signature", "parameters", "patches"}

Draft == [fields : [Key -> Value \cup {Null}], parameters : Seq(Parameter),
          patches : Seq(Given), has : SUBSET Sections]
Split == [fields : [Key -> Value \cup {Null, Text}],
          parameters : [0 .. MaxParameters -> Parameter],
          parameterCount : 0 .. MaxParameters,
          patches : [0 .. MaxPatches -> PatchOf],
          patchCount : 0 .. MaxPatches + 1]

Listed  == Len(draft.parameters)
Written == Len(draft.patches)

\* The state is the nesting of the file, and the buffer has grown when it must.
Nested ==
    /\ where \in {"file", "split", "signature?", "signature", "parameters",
                  "parameter", "patches", "patch"}
    /\ draft \in Draft /\ file \in Seq(Draft) /\ status \in {"reading", "done", "failed"}
    /\ where = "parameter" => Listed > 0
    /\ where = "patch" => Written > 0
    /\ StateFollowsNesting
    /\ splitCount = Len(file)
    /\ Len(file) =< MaxSplits
    /\ where # "file" => Len(file) < MaxSplits
    /\ allocated = IF splitCount > Initial THEN 2 * Initial ELSE Initial

Complete(p) == p.Index # Null /\ p.Value # Null
InOrder(p)  == /\ p.first = "none" <=> p.Index = Null /\ p.Value = Null
               /\ p.first = "Index" => p.Index # Null
               /\ p.first = "Value" => p.Value # Null

\* The slot for the next key of a list of patches, and the list with that key.
NextSlot(ps)      == IF ps[Len(ps)].Value = Null THEN Len(ps) ELSE Len(ps) + 1
Keyed(ps, key, v) == [ps EXCEPT ![Len(ps)] = Edited(@, key, v)]

\* Parameters are where they were written; one that is being written is counted
\* only when it is closed.
ParametersKept ==
    /\ Listed =< MaxParameters
    /\ split.parameterCount = IF where = "parameter" THEN Listed - 1 ELSE Listed
    /\ \A n \in 0 .. MaxParameters :
          split.parameters[n] = IF n < Listed THEN InA0(draft.parameters[n + 1])
                                ELSE NoParameter

\* A patch is complete when it has been closed; what it gave first it has.
PatchesWhole ==
    /\ "patches" \notin draft.has => Written = 0
    /\ where \in {"patches", "patch"} => "patches" \in draft.has
    /\ \A n \in 1 .. Written : InOrder(draft.patches[n])
    /\ \A n \in 1 .. Written :
          n < Written \/ where # "patch" => Complete(draft.patches[n])

\* The slots hold what can be kept of each patch.  The count is brought up to
\* date by the key that follows a value: while a patch is written what is known
\* is the slot its next key will go to.
PatchesKept ==
    /\ Written =< MaxPatches
    /\ \A n \in 0 .. MaxPatches : split.patches[n] = Slot(draft.patches, n + 1)
    /\ "patches" \notin draft.has => split.patchCount = 0
    /\ \/ where = "patches"
       \/ where = "patch" /\ Complete(draft.patches[Written])
       => split.patchCount = Extent(draft.patches) - 1
    /\ where = "patch" /\ ~Complete(draft.patches[Written]) =>
          PatchSlot = NextSlot(draft.patches) - 1
    /\ "patches" \in draft.has /\ where \notin {"patches", "patch"} =>
          split.patchCount = Extent(draft.patches)

\* What is open has been read as it was written; between two splits nothing is
\* left of the one before; and what is closed stays as it was read.
Drafted ==
    /\ Nested
    /\ split \in Split /\ splits \in Seq(Split)
    /\ where = "file" => draft = EmptyDraft /\ split = EmptySplit
    /\ split.fields = draft.fields
    /\ ParametersKept
    /\ PatchesWhole
    /\ PatchesKept
    /\ Len(splits) = splitCount
    /\ ParsedAsWritten

-----------------------------------------------------------------------------
(* Tables and case distinctions, by value.                                  *)

\* Where a mapping start leads, state by state.
LEMMA DownIs ==
    /\ Down["ROOT"] = "SPLIT" /\ Down["SPLIT"] = "SIGNATURE"
    /\ Down["SIGNATURE"] = "PARAMETER" /\ Down["PATCH_ARRAY"] = "PATCH"
  BY DEF Down

\* Where an end leads, state by state.
LEMMA UpIs ==
    /\ Up["SPLIT"] = "ROOT" /\ Up["SIGNATURE"] = "SPLIT" /\ Up["PARAMETER"] = "SIGNATURE"
    /\ Up["PATCH_ARRAY"] = "SPLIT" /\ Up["PATCH"] = "PATCH_ARRAY"
  BY DEF Up

\* The state that belongs to each place in the file.
LEMMA StandingIs ==
    /\ where = "file" => Standing = "ROOT"
    /\ where \in {"split", "signature?"} => Standing = "SPLIT"
    /\ where \in {"signature", "parameters"} => Standing = "SIGNATURE"
    /\ where = "parameter" => Standing = "PARAMETER"
    /\ where = "patches" => Standing = "PATCH_ARRAY"
    /\ where = "patch" => Standing = "PATCH"
  BY DEF Standing

\* The same, after a step.
LEMMA StandingNext ==
    /\ where' = "file" => Standing' = "ROOT"
    /\ where' \in {"split", "signature?"} => Standing' = "SPLIT"
    /\ where' \in {"signature", "parameters"} => Standing' = "SIGNATURE"
    /\ where' = "parameter" => Standing' = "PARAMETER"
    /\ where' = "patches" => Standing' = "PATCH_ARRAY"
    /\ where' = "patch" => Standing' = "PATCH"
  BY DEF Standing

\* What an end counts: a parameter, or the last patch of a list.
LEMMA CountedIs ==
    /\ state = "PARAMETER" => Counted = [split EXCEPT !.parameterCount = @ + 1]
    /\ state = "PATCH_ARRAY" => Counted = [split EXCEPT !.patchCount = @ + 1]
    /\ state \notin {"PARAMETER", "PATCH_ARRAY"} => Counted = split
  BY DEF Counted

\* A key of a patch, put into slot n.
PatchPut(s, n, key, v) == [s EXCEPT !.patchCount = n, !.patches[n][key] = v]

\* What a scalar does in each state.
LEMMA ScalarIs ==
    ASSUME NEW key, NEW v, Scalar(key, v)
    PROVE  /\ UNCHANGED <<state, splitCount, splits, allocated, status>>
           /\ state = "SPLIT" /\ key \in SplitKey =>
                 split' = [split EXCEPT !.fields[key] = v]
           /\ state = "SIGNATURE" /\ key \in SignatureKey =>
                 split' = [split EXCEPT !.fields[key] = v]
           /\ state = "PARAMETER" /\ key \in {"Type", "Name"} =>
                 split' = [split EXCEPT !.parameters[split.parameterCount][key] = v]
           /\ state = "PARAMETER" /\ key = "Register" => split' = split
           /\ state = "PATCH" => split' = PatchPut(split, PatchSlot, key, v)
<1>1. /\ state = "SPLIT" /\ key \in SplitKey =>
            split' = [split EXCEPT !.fields[key] = v]
      /\ state = "SIGNATURE" /\ key \in SignatureKey =>
            split' = [split EXCEPT !.fields[key] = v]
  BY DEF Scalar
<1>2. state = "PARAMETER" /\ key \in {"Type", "Name"} =>
            split' = [split EXCEPT !.parameters[split.parameterCount][key] = v]
  BY DEF Scalar
<1>3. state = "PARAMETER" /\ key = "Register" => split' = split
  BY DEF Scalar
<1>4. state = "PATCH" => split' = PatchPut(split, PatchSlot, key, v)
  BY DEF Scalar, PatchPut
<1> QED
  BY <1>1, <1>2, <1>3, <1>4 DEF Scalar

\* The end of a mapping inside a split; that of a split itself.
LEMMA InnerEnd ==
    ASSUME EndMapping, state \in {"SIGNATURE", "PARAMETER", "PATCH_ARRAY", "PATCH"}
    PROVE  /\ state' = Up[state] /\ split' = Counted
           /\ UNCHANGED <<splitCount, splits, allocated, status>>
  BY UpIs DEF EndMapping

\* The end of a split: it is stored, and the next one starts empty.
LEMMA OuterEnd ==
    ASSUME EndMapping, state = "SPLIT"
    PROVE  /\ state' = "ROOT" /\ split' = EmptySplit
           /\ splits' = Append(splits, Defaulted(split)) /\ splitCount' = splitCount + 1
           /\ allocated' = IF splitCount >= Initial THEN 2 * Initial ELSE allocated
           /\ status' = status
  BY UpIs, CountedIs, BoundAssumption DEF EndMapping

-----------------------------------------------------------------------------
(* The types of what is written.                                            *)

\* What a key of a parameter may be given.
Fits(key, v) == \/ key \in {"Type", "Name"} /\ v \in Value
                \/ key = "Register" /\ v \in Register

\* Writing a key of a parameter: what is kept of it is that key, or for the
\* Register nothing.
LEMMA ParameterEdited ==
    ASSUME NEW p \in Parameter, NEW key, NEW v, Fits(key, v)
    PROVE  /\ [p EXCEPT ![key] = v] \in Parameter
           /\ key # "Register" => InA0([p EXCEPT ![key] = v]) = [InA0(p) EXCEPT ![key] = v]
           /\ key = "Register" => InA0([p EXCEPT ![key] = v]) = InA0(p)
<1>1. CASE key = "Type"
  BY <1>1 DEF Parameter, InA0, Fits
<1>2. CASE key = "Name"
  BY <1>2 DEF Parameter, InA0, Fits
<1>3. CASE key = "Register"
  BY <1>3 DEF Parameter, InA0, Fits
<1> QED
  BY <1>1, <1>2, <1>3 DEF Fits

\* What is kept of a parameter, and of an empty one.
LEMMA InA0Is ==
    /\ \A p \in Parameter : InA0(p) \in Parameter
    /\ NoParameter \in Parameter
    /\ InA0(NoParameter) = [NoParameter EXCEPT !["Register"] = A0]
  BY DEF InA0, NoParameter, Parameter

\* Reading a key of a patch leaves the other alone.
LEMMA PatchEdited ==
    ASSUME NEW p \in PatchOf, NEW key \in {"Index", "Value"}, NEW v \in PatchValue
    PROVE  /\ [p EXCEPT ![key] = v] \in PatchOf
           /\ [p EXCEPT ![key] = v].Index = IF key = "Index" THEN v ELSE p.Index
           /\ [p EXCEPT ![key] = v].Value = IF key = "Value" THEN v ELSE p.Value
<1>1. CASE key = "Index"
  BY <1>1 DEF PatchOf
<1>2. CASE key = "Value"
  BY <1>2 DEF PatchOf
<1> QED
  BY <1>1, <1>2

\* A slot is given by its two keys.
LEMMA PatchIs == \A p \in PatchOf : p = [Index |-> p.Index, Value |-> p.Value]
  BY DEF PatchOf

\* So does writing one, which also notes the first.
LEMMA PatchGiven ==
    ASSUME NEW p \in Given, NEW key \in {"Index", "Value"}, NEW v \in PatchValue
    PROVE  /\ Edited(p, key, v) \in Given
           /\ Edited(p, key, v).Index = IF key = "Index" THEN v ELSE p.Index
           /\ Edited(p, key, v).Value = IF key = "Value" THEN v ELSE p.Value
           /\ Edited(p, key, v).first = IF p.first = "none" THEN key ELSE p.first
<1>1. CASE key = "Index"
  BY <1>1 DEF Given, Edited
<1>2. CASE key = "Value"
  BY <1>2 DEF Given, Edited
<1> QED
  BY <1>1, <1>2

\* Writing changes one part of the draft.
LEMMA FieldWritten ==
    ASSUME draft \in Draft, NEW key \in Key, NEW v \in Value,
           draft' = [draft EXCEPT !.fields[key] = v]
    PROVE  /\ draft' \in Draft /\ draft'.fields = [draft.fields EXCEPT ![key] = v]
           /\ UNCHANGED <<draft.parameters, draft.patches, draft.has>>
  BY DEF Draft

\* Opening a section of a split changes only which sections it has.
LEMMA SectionOpened ==
    ASSUME draft \in Draft, NEW name \in Sections,
           draft' = [draft EXCEPT !.has = @ \cup {name}]
    PROVE  /\ draft' \in Draft /\ draft'.has = draft.has \cup {name}
           /\ UNCHANGED <<draft.fields, draft.parameters, draft.patches>>
  BY DEF Draft

\* Opening a parameter adds an empty one to the list.
LEMMA ParameterOpened ==
    ASSUME draft \in Draft, draft' = [draft EXCEPT !.parameters = Append(@, NoParameter)]
    PROVE  /\ draft' \in Draft /\ draft'.parameters = Append(draft.parameters, NoParameter)
           /\ UNCHANGED <<draft.fields, draft.patches, draft.has>>
<1>1. NoParameter \in Parameter
  BY DEF NoParameter, Parameter
<1> DEFINE new == Append(draft.parameters, NoParameter)
<1>2. new \in Seq(Parameter)
  BY <1>1 DEF Draft
<1>3. draft' = [draft EXCEPT !.parameters = new]
  OBVIOUS
<1> HIDE DEF new
<1>4. /\ draft' \in Draft /\ draft'.parameters = new
      /\ UNCHANGED <<draft.fields, draft.patches, draft.has>>
  BY <1>2, <1>3 DEF Draft
<1> QED
  BY <1>4 DEF new

\* Opening a patch adds an empty one to the list.
LEMMA PatchOpened ==
    ASSUME draft \in Draft, draft' = [draft EXCEPT !.patches = Append(@, NewPatch)]
    PROVE  /\ draft' \in Draft /\ draft'.patches = Append(draft.patches, NewPatch)
           /\ UNCHANGED <<draft.fields, draft.parameters, draft.has>>
<1>1. NewPatch \in Given
  BY DEF NewPatch, Given
<1> DEFINE new == Append(draft.patches, NewPatch)
<1>2. new \in Seq(Given)
  BY <1>1 DEF Draft
<1>3. draft' = [draft EXCEPT !.patches = new]
  OBVIOUS
<1> HIDE DEF new
<1>4. /\ draft' \in Draft /\ draft'.patches = new
      /\ UNCHANGED <<draft.fields, draft.parameters, draft.has>>
  BY <1>2, <1>3 DEF Draft
<1> QED
  BY <1>4 DEF new

\* Writing a key of a parameter changes that parameter only.
LEMMA ParameterWritten ==
    ASSUME draft \in Draft, NEW key, NEW v, Fits(key, v), NEW n \in 1 .. Listed,
           draft' = [draft EXCEPT !.parameters[n][key] = v]
    PROVE  /\ draft' \in Draft
           /\ draft'.parameters =
                 [draft.parameters EXCEPT ![n] = [draft.parameters[n] EXCEPT ![key] = v]]
           /\ Len(draft'.parameters) = Listed
           /\ UNCHANGED <<draft.fields, draft.patches, draft.has>>
<1>1. draft.parameters \in Seq(Parameter) /\ draft.parameters[n] \in Parameter
  BY DEF Draft, Listed
<1>2. [draft.parameters[n] EXCEPT ![key] = v] \in Parameter
  BY <1>1, ParameterEdited
<1> DEFINE p == [draft.parameters[n] EXCEPT ![key] = v]
           new == [draft.parameters EXCEPT ![n] = p]
<1>3. draft' = [draft EXCEPT !.parameters = new]
  OBVIOUS
<1>4. new \in Seq(Parameter) /\ Len(new) = Listed
  <2> HIDE DEF p
  <2>1. n \in 1 .. Len(draft.parameters) /\ draft.parameters \in Seq(Parameter) /\ p \in Parameter
    BY <1>1, <1>2 DEF Listed, p
  <2>2. new \in Seq(Parameter) /\ Len(new) = Len(draft.parameters)
    BY ONLY <2>1, ExceptSeq
  <2> QED
    BY <2>2 DEF Listed
<1> HIDE DEF new
<1>5. /\ draft' \in Draft /\ draft'.parameters = new
      /\ UNCHANGED <<draft.fields, draft.patches, draft.has>>
  BY <1>3, <1>4 DEF Draft
<1> QED
  BY <1>4, <1>5 DEF new

\* Writing a key of a patch changes that patch only.
LEMMA PatchWritten ==
    ASSUME draft \in Draft, NEW key \in {"Index", "Value"}, NEW v \in PatchValue,
           NEW n \in 1 .. Written,
           draft' = [draft EXCEPT !.patches[n] = Edited(@, key, v)]
    PROVE  /\ draft' \in Draft
           /\ draft'.patches = [draft.patches EXCEPT ![n] = Edited(draft.patches[n], key, v)]
           /\ Len(draft'.patches) = Written
           /\ UNCHANGED <<draft.fields, draft.parameters, draft.has>>
<1>1. draft.patches \in Seq(Given) /\ draft.patches[n] \in Given
  BY DEF Draft, Written
<1>2. Edited(draft.patches[n], key, v) \in Given
  BY <1>1, PatchGiven
<1> DEFINE p == Edited(draft.patches[n], key, v)
           new == [draft.patches EXCEPT ![n] = p]
<1>3. draft' = [draft EXCEPT !.patches = new]
  OBVIOUS
<1>4. new \in Seq(Given) /\ Len(new) = Written
  <2> HIDE DEF p
  <2>1. n \in 1 .. Len(draft.patches) /\ draft.patches \in Seq(Given) /\ p \in Given
    BY <1>1, <1>2 DEF Written, p
  <2>2. new \in Seq(Given) /\ Len(new) = Len(draft.patches)
    BY ONLY <2>1, ExceptSeq
  <2> QED
    BY <2>2 DEF Written
<1> HIDE DEF new
<1>5. /\ draft' \in Draft /\ draft'.patches = new
      /\ UNCHANGED <<draft.fields, draft.parameters, draft.has>>
  BY <1>3, <1>4 DEF Draft
<1> QED
  BY <1>4, <1>5 DEF new

\* What is being written starts out empty.
LEMMA EmptyIsDraft ==
    /\ EmptyDraft \in Draft
    /\ EmptyDraft.parameters = <<>> /\ EmptyDraft.patches = <<>> /\ EmptyDraft.has = {}
    /\ EmptyDraft.fields = Nothing
  BY DEF EmptyDraft, Draft, Nothing

-----------------------------------------------------------------------------
(* The state and the nesting.                                               *)

\* Where a step that moves in the file can be taken from, and the state there.
LEMMA StateAt ==
    ASSUME Nested
    PROVE  /\ where = "file" => state = "ROOT"
           /\ where \in {"split", "signature?"} => state = "SPLIT"
           /\ where \in {"signature", "parameters"} => state = "SIGNATURE"
           /\ where = "parameter" => state = "PARAMETER"
           /\ where = "patches" => state = "PATCH_ARRAY"
           /\ where = "patch" => state = "PATCH"
  BY StandingIs DEF Nested, StateFollowsNesting

\* A step inside a file that is being read, which closes no split.
LEMMA NestedInside ==
    ASSUME Nested, draft' \in Draft, status' = "reading",
           UNCHANGED <<file, splitCount, allocated>>,
           where' \in {"split", "signature?", "signature", "parameters", "parameter",
                       "patches", "patch"},
           where = "file" => Len(file) < MaxSplits,
           where' = "parameter" => Len(draft'.parameters) > 0,
           where' = "patch" => Len(draft'.patches) > 0,
           /\ where' \in {"split", "signature?"} => state' = "SPLIT"
           /\ where' \in {"signature", "parameters"} => state' = "SIGNATURE"
           /\ where' = "parameter" => state' = "PARAMETER"
           /\ where' = "patches" => state' = "PATCH_ARRAY"
           /\ where' = "patch" => state' = "PATCH"
    PROVE  Nested'
<1>1. StateFollowsNesting'
  BY StandingNext DEF StateFollowsNesting
<1> QED
  BY <1>1 DEF Nested, Listed, Written

\* A sequence that has been appended to is not empty.
LEMMA Appended ==
    ASSUME NEW S, NEW seq \in Seq(S), NEW e \in S
    PROVE  Len(Append(seq, e)) = Len(seq) + 1 /\ Len(seq) \in Nat
  OBVIOUS

\* Every step keeps the parser where the file is.
LEMMA NestedStep ==
    ASSUME Nested, [Next]_vars
    PROVE  Nested'
<1>1. draft \in Draft
  BY DEF Nested
<1> USE DEF Reading, Sections
<1>2. CASE OpenSplit
  <2>1. where = "file" /\ where' = "split" /\ Len(file) < MaxSplits /\ status = "reading"
    BY <1>2 DEF OpenSplit
  <2>2. state' = "SPLIT"
    BY <1>2, <2>1, StateAt, DownIs DEF OpenSplit, StartMapping
  <2> QED
    BY <1>1, <1>2, <2>1, <2>2, NestedInside DEF OpenSplit, StartMapping
<1>3. CASE KeySignature
  <2>1. draft' \in Draft
    BY <1>1, <1>3, SectionOpened DEF KeySignature
  <2> QED
    BY <1>3, <2>1, StateAt, NestedInside DEF KeySignature, parser
<1>4. CASE OpenSignature
  BY <1>1, <1>4, StateAt, DownIs, NestedInside DEF OpenSignature, StartMapping
<1>5. CASE KeyParameters
  <2>1. draft' \in Draft
    BY <1>1, <1>5, SectionOpened DEF KeyParameters
  <2> QED
    BY <1>5, <2>1, StateAt, NestedInside DEF KeyParameters, parser
<1>6. CASE OpenParameter
  <2>1. draft' \in Draft /\ draft'.parameters = Append(draft.parameters, NoParameter)
    BY <1>1, <1>6, ParameterOpened DEF OpenParameter
  <2>2. Len(draft'.parameters) > 0
    <3>1. draft.parameters \in Seq(Parameter) /\ NoParameter \in Parameter
      BY <1>1 DEF Draft, Parameter, NoParameter
    <3> QED
      BY <3>1, <2>1, Appended
  <2>3. where = "parameters" /\ where' = "parameter" /\ status = "reading"
    BY <1>6 DEF OpenParameter
  <2>4. state' = "PARAMETER"
    BY <1>6, <2>3, StateAt, DownIs DEF OpenParameter, StartMapping
  <2> QED
    BY <1>6, <2>1, <2>2, <2>3, <2>4, NestedInside DEF OpenParameter, StartMapping
<1>7. CASE KeyPatches
  <2>1. draft' \in Draft
    BY <1>1, <1>7, SectionOpened DEF KeyPatches
  <2> QED
    BY <1>7, <2>1, StateAt, NestedInside DEF KeyPatches, SwitchToPatches
<1>8. CASE OpenPatch
  <2>1. draft' \in Draft /\ draft'.patches = Append(draft.patches, NewPatch)
    BY <1>1, <1>8, PatchOpened DEF OpenPatch
  <2>2. Len(draft'.patches) > 0
    <3>1. draft.patches \in Seq(Given) /\ NewPatch \in Given
      BY <1>1 DEF Draft, Given, NewPatch
    <3> QED
      BY <3>1, <2>1, Appended
  <2>3. where = "patches" /\ where' = "patch" /\ status = "reading"
    BY <1>8 DEF OpenPatch
  <2>4. state' = "PATCH"
    BY <1>8, <2>3, StateAt, DownIs DEF OpenPatch, StartMapping
  <2> QED
    BY <1>8, <2>1, <2>2, <2>3, <2>4, NestedInside DEF OpenPatch, StartMapping
<1>9. ASSUME NEW v \in Value, NEW key \in Key, WriteField(key, v)
      PROVE  Nested'
  <2>1. draft' \in Draft
    BY <1>1, <1>9, FieldWritten DEF WriteField
  <2>2. UNCHANGED <<state, splitCount, allocated, status>>
    BY <1>9, ScalarIs DEF WriteField
  <2> QED
    BY <1>9, <2>1, <2>2, StateAt, NestedInside DEF WriteField
<1>a. ASSUME NEW v, NEW key, WriteParameter(key, v), Fits(key, v)
      PROVE  Nested'
  <2>1. UNCHANGED <<state, splitCount, allocated, status>>
    BY <1>a, ScalarIs DEF WriteParameter
  <2>2. /\ where = "parameter" /\ where' = where /\ file' = file /\ status = "reading"
        /\ draft' = [draft EXCEPT !.parameters[Listed][key] = v]
    BY <1>a DEF WriteParameter, Listed
  <2>3. Listed \in 1 .. Listed
    BY <1>1, <2>2 DEF Nested, Listed, Draft
  <2>4. draft' \in Draft /\ Len(draft'.parameters) = Listed
    BY <1>1, <1>a, <2>2, <2>3, ParameterWritten
  <2> QED
    BY <2>1, <2>2, <2>3, <2>4, StateAt, NestedInside
<1>b. ASSUME NEW v \in PatchValue, NEW key \in {"Index", "Value"}, WritePatch(key, v)
      PROVE  Nested'
  <2>1. UNCHANGED <<state, splitCount, allocated, status>>
    BY <1>b, ScalarIs DEF WritePatch
  <2>2. /\ where = "patch" /\ where' = where /\ file' = file /\ status = "reading"
        /\ draft' = [draft EXCEPT !.patches[Written] = Edited(@, key, v)]
    BY <1>b DEF WritePatch, Written
  <2>3. Written \in 1 .. Written
    BY <1>1, <2>2 DEF Nested, Written, Draft
  <2>4. draft' \in Draft /\ Len(draft'.patches) = Written
    BY <1>1, <1>b, <2>2, <2>3, PatchWritten
  <2> QED
    BY <2>1, <2>2, <2>3, <2>4, StateAt, NestedInside
<1>c. CASE CloseParameter
  BY <1>1, <1>c, StateAt, UpIs, InnerEnd, NestedInside DEF CloseParameter
<1>d. CASE ClosePatch
  BY <1>1, <1>d, StateAt, UpIs, InnerEnd, NestedInside DEF ClosePatch
<1>e. CASE CloseSequence
  <2>1. CASE where = "parameters"
    <3>1. state = "SIGNATURE" /\ where' = "signature" /\ status = "reading"
          /\ UNCHANGED parser /\ UNCHANGED <<draft, file>>
      BY <1>e, <2>1, StateAt DEF CloseSequence, EndSequence
    <3> QED
      BY <1>1, <3>1, <2>1, NestedInside DEF parser
  <2>2. CASE where = "patches"
    <3>1. state = "PATCH_ARRAY" /\ where' = "split" /\ status = "reading"
          /\ EndMapping /\ UNCHANGED <<draft, file>>
      BY <1>e, <2>2, StateAt DEF CloseSequence, EndSequence
    <3> QED
      BY <1>1, <3>1, <2>2, UpIs, InnerEnd, NestedInside
  <2> QED
    BY <1>e, <2>1, <2>2 DEF CloseSequence
<1>f. CASE CloseSignature
  BY <1>1, <1>f, StateAt, UpIs, InnerEnd, NestedInside DEF CloseSignature
<1>g. CASE CloseSplit
  <2>1. /\ where = "split" /\ where' = "file" /\ file' = Append(file, draft)
        /\ draft' = EmptyDraft /\ EndMapping
    BY <1>g DEF CloseSplit
  <2>2. /\ state' = "ROOT" /\ splitCount' = splitCount + 1 /\ status' = status
        /\ allocated' = IF splitCount >= Initial THEN 2 * Initial ELSE allocated
    BY <2>1, StateAt, OuterEnd
  <2>3. file' \in Seq(Draft) /\ Len(file') = Len(file) + 1 /\ Len(file) \in Nat
    BY <1>1, <2>1 DEF Nested
  <2>4. StateFollowsNesting'
    BY <2>1, <2>2, StandingNext DEF StateFollowsNesting
  <2>5. /\ splitCount = Len(file) /\ Len(file) < MaxSplits
        /\ allocated = IF splitCount > Initial THEN 2 * Initial ELSE Initial
    BY <2>1 DEF Nested
  <2>6. /\ splitCount' = Len(file') /\ Len(file') =< MaxSplits
        /\ allocated' = IF splitCount' > Initial THEN 2 * Initial ELSE Initial
    BY <2>2, <2>3, <2>5, BoundAssumption
  <2>7. draft' \in Draft /\ status \in {"reading", "done", "failed"}
    BY <2>1, EmptyIsDraft DEF Nested
  <2> QED
    BY <2>1, <2>2, <2>3, <2>4, <2>6, <2>7 DEF Nested
<1>h. ASSUME UNCHANGED <<author, state, splitCount, allocated>>,
             status' \in {"reading", "done", "failed"}
      PROVE  Nested'
  BY <1>h DEF Nested, author, StateFollowsNesting, Standing, Listed, Written
<1>i. CASE Finish
  BY <1>i, <1>h DEF Finish
<1>j. CASE UNCHANGED vars
  <2>1. status' \in {"reading", "done", "failed"}
    BY <1>j DEF vars, Nested
  <2> QED
    BY <1>j, <1>h, <2>1 DEF vars, author
<1>k. CASE Stopped
  BY <1>k, <1>j DEF Stopped
<1>l. ASSUME NEW v, NEW key, WriteParameter(key, v),
             \/ key \in {"Type", "Name"} /\ v \in Value
             \/ key = "Register" /\ v \in Register
      PROVE  Nested'
  BY <1>a, <1>l DEF Fits
<1> QED
  BY <1>2, <1>3, <1>4, <1>5, <1>6, <1>7, <1>8, <1>9, <1>l, <1>b, <1>c, <1>d, <1>e,
     <1>f, <1>g, <1>i, <1>j, <1>k DEF Next

\* Before the file is read nothing is open.
LEMMA NestedStarts ==
    ASSUME Init
    PROVE  Nested
  BY EmptyIsDraft, StandingIs, BoundAssumption DEF Init, Nested, StateFollowsNesting

\* The state is always the nesting, in whichever order patches are written.
THEOREM NestedAlways == Spec => []Nested
<1>1. Nested /\ [Next]_vars => Nested'
  BY NestedStep
<1> QED
  BY NestedStarts, <1>1, PTL DEF Spec

\* The parser, which never looks at the nesting of the file, always knows where
\* it stands: sequence ends and mapping ends never leave a level too early or
\* too late.
THEOREM StateFollows == Spec => []StateFollowsNesting
<1>1. Nested => StateFollowsNesting
  BY DEF Nested
<1> QED
  BY NestedAlways, <1>1, PTL

\* The buffer is large enough for files of up to twice its first size; it is
\* doubled once only.
THEOREM BufferHolds == ASSUME MaxSplits =< 2 * Initial PROVE Spec => []InsideBuffer
<1>1. Nested => InsideBuffer
  BY BoundAssumption DEF Nested, InsideBuffer
<1> QED
  BY NestedAlways, <1>1, PTL

-----------------------------------------------------------------------------
(* What the slots keep of a list of patches.                                *)

\* A list takes one slot more than its patches if it is empty or its last is late.
LEMMA ExtentIs ==
    ASSUME NEW ps \in Seq(Given)
    PROVE  /\ Len(ps) \in Nat /\ Extent(ps) \in Nat
           /\ Len(ps) = 0 => Extent(ps) = 1
           /\ Len(ps) > 0 => Extent(ps) = IF ps[Len(ps)].first = "Value" THEN Len(ps) + 1
                                          ELSE Len(ps)
<1>1. Len(ps) \in Nat /\ (ps = <<>> <=> Len(ps) = 0)
  BY EmptySeq
<1>2. Len(ps) > 0 => (Late(ps, Len(ps)) <=> ps[Len(ps)].first = "Value")
  BY <1>1 DEF Late
<1> QED
  BY <1>1, <1>2 DEF Extent

\* Of no patch, a slot keeps nothing.
LEMMA NoSlotFilled == \A n \in Nat : Slot(<<>>, n) = NoPatch
  BY DEF Slot, IndexKept, ValueKept, Late, NoPatch

\* A patch that has been opened and has no key yet changes no slot.
LEMMA SlotOpened ==
    ASSUME NEW ps \in Seq(Given), NEW n \in Nat \ {0}
    PROVE  Slot(Append(ps, NewPatch), n) = Slot(ps, n)
<1> DEFINE new == Append(ps, NewPatch)
<1>1. NewPatch \in Given /\ NewPatch.first = "none" /\ NewPatch.Value = Null
  BY DEF NewPatch, Given
<1>2. /\ Len(ps) \in Nat /\ DOMAIN ps = 1 .. Len(ps) /\ DOMAIN new = 1 .. Len(ps) + 1
      /\ \A m \in 1 .. Len(ps) : new[m] = ps[m]
      /\ new[Len(ps) + 1] = NewPatch
  BY <1>1
<1> HIDE DEF new
<1>3. ASSUME NEW m \in Nat
      PROVE  /\ Late(new, m) <=> Late(ps, m)
             /\ Late(ps, m) => new[m].Index = ps[m].Index
  <2>1. CASE m \in 1 .. Len(ps)
    BY <2>1, <1>2 DEF Late
  <2>2. CASE m = Len(ps) + 1
    BY <2>2, <1>1, <1>2 DEF Late
  <2>3. CASE m \notin 1 .. Len(ps) + 1
    BY <2>3, <1>2 DEF Late
  <2> QED
    BY <2>1, <2>2, <2>3, <1>2
<1>4. IndexKept(new, n) = IndexKept(ps, n)
  <2>1. n - 1 \in Nat
    OBVIOUS
  <2>2. n \in DOMAIN new /\ new[n].first = "Index" <=> n \in DOMAIN ps /\ ps[n].first = "Index"
    BY <1>1, <1>2
  <2>3. n \in DOMAIN ps => new[n] = ps[n]
    BY <1>2
  <2> QED
    BY <2>1, <2>2, <2>3, <1>3 DEF IndexKept
<1>5. ValueKept(new, n) = ValueKept(ps, n)
  BY <1>1, <1>2 DEF ValueKept
<1> QED
  BY <1>4, <1>5 DEF Slot, new

\* A key of the last patch changes one slot: its own, or the next if the patch
\* already has its Value.
LEMMA SlotWritten ==
    ASSUME NEW ps \in Seq(Given), Len(ps) > 0, InOrder(ps[Len(ps)]),
           NEW key \in {"Index", "Value"}, NEW v \in PatchValue,
           ps[Len(ps)][key] = Null, NEW n \in Nat \ {0}
    PROVE  /\ IndexKept(Keyed(ps, key, v), n) =
                  IF n = NextSlot(ps) /\ key = "Index" THEN v ELSE IndexKept(ps, n)
           /\ ValueKept(Keyed(ps, key, v), n) =
                  IF n = NextSlot(ps) /\ key = "Value" THEN v ELSE ValueKept(ps, n)
<1> DEFINE L == Len(ps)
           old == ps[L]
           e == Edited(old, key, v)
           new == Keyed(ps, key, v)
<1>1. L \in Nat \ {0} /\ old \in Given /\ v # Null
  BY ValueAssumption
<1>2. /\ e.Index = IF key = "Index" THEN v ELSE old.Index
      /\ e.Value = IF key = "Value" THEN v ELSE old.Value
      /\ e.first = IF old.first = "none" THEN key ELSE old.first
  BY <1>1, PatchGiven
<1>3. /\ DOMAIN ps = 1 .. L /\ DOMAIN new = 1 .. L
      /\ \A m \in 1 .. L : m # L => new[m] = ps[m]
      /\ new[L] = e
  <2> HIDE DEF e
  <2>1. new = [ps EXCEPT ![L] = e]
    BY DEF Keyed, e
  <2> HIDE DEF new
  <2> QED
    BY <1>1, <2>1
<1>4. NextSlot(ps) = IF old.Value = Null THEN L ELSE L + 1
  BY DEF NextSlot
<1>5. InOrder(old) /\ old[key] = Null
  OBVIOUS
<1> HIDE DEF e, new, old, L
<1>6. /\ key = "Index" /\ old.Value = Null => old.first = "none"
      /\ key = "Index" /\ old.Value # Null => old.first = "Value"
      /\ key = "Value" => old.first \in {"none", "Index"} /\ old.Value = Null
      /\ key = "Index" => old.Index = Null
      /\ old.first = "none" => old.Index = Null
  BY <1>1, <1>5 DEF InOrder, Given
<1>7. ASSUME NEW m \in Nat, m # L
      PROVE  /\ Late(new, m) <=> Late(ps, m)
             /\ Late(ps, m) => new[m].Index = ps[m].Index
  <2>1. CASE m \in 1 .. L
    BY <2>1, <1>3, <1>7 DEF Late
  <2>2. CASE m \notin 1 .. L
    BY <2>2, <1>3 DEF Late
  <2> QED
    BY <2>1, <2>2
<1>8. ps[L] = old
  BY DEF old
<1>9. CASE n = L
  <2> DEFINE left == IF Late(ps, n - 1) THEN ps[n - 1].Index ELSE Null
  <2>1. n \in 1 .. L /\ n - 1 \in Nat /\ n - 1 # L
    BY <1>1, <1>9
  <2>2. Late(new, n - 1) <=> Late(ps, n - 1)
    BY <2>1, <1>7
  <2>3. Late(ps, n - 1) => new[n - 1].Index = ps[n - 1].Index
    BY <2>1, <1>7
  <2>4. /\ IndexKept(ps, n) = IF old.first = "Index" THEN old.Index ELSE left
        /\ IndexKept(new, n) = IF e.first = "Index" THEN e.Index ELSE left
    BY <2>1, <2>2, <2>3, <1>3, <1>8, <1>9 DEF IndexKept
  <2>5. ValueKept(ps, n) = old.Value /\ ValueKept(new, n) = e.Value
    BY <2>1, <1>3, <1>8, <1>9 DEF ValueKept
  <2>6. n = NextSlot(ps) <=> old.Value = Null
    BY <1>1, <1>4, <1>9
  <2> HIDE DEF left
  <2> QED
    BY <2>4, <2>5, <2>6, <1>2, <1>6 DEF new
<1>a. CASE n = L + 1
  <2>1. n \notin 1 .. L /\ n - 1 = L /\ L \in 1 .. L
    BY <1>1, <1>a
  <2>2. /\ IndexKept(ps, n) = IF old.first = "Value" THEN old.Index ELSE Null
        /\ IndexKept(new, n) = IF e.first = "Value" THEN e.Index ELSE Null
    BY <2>1, <1>3, <1>8 DEF IndexKept, Late
  <2>3. ValueKept(ps, n) = Null /\ ValueKept(new, n) = Null
    BY <2>1, <1>3 DEF ValueKept
  <2>4. n = NextSlot(ps) <=> old.Value # Null
    BY <1>1, <1>4, <1>a
  <2> QED
    BY <2>2, <2>3, <2>4, <1>2, <1>6 DEF new
<1>b. CASE n # L /\ n # L + 1
  <2>1. n - 1 \in Nat /\ n - 1 # L /\ n # NextSlot(ps)
    BY <1>1, <1>4, <1>b
  <2>2. /\ n \in 1 .. L => new[n] = ps[n]
        /\ Late(new, n - 1) <=> Late(ps, n - 1)
        /\ Late(ps, n - 1) => new[n - 1].Index = ps[n - 1].Index
    BY <2>1, <1>3, <1>7, <1>b
  <2>3. IndexKept(new, n) = IndexKept(ps, n)
    BY <2>2, <1>3 DEF IndexKept
  <2>4. ValueKept(new, n) = ValueKept(ps, n)
    BY <2>2, <1>3 DEF ValueKept
  <2> QED
    BY <2>1, <2>3, <2>4 DEF new
<1> QED
  BY <1>9, <1>a, <1>b DEF new

-----------------------------------------------------------------------------
(* The split being filled, part by part.                                    *)

\* Reading a field of a split or of its signature changes that field only.
LEMMA FieldRead ==
    ASSUME split \in Split, NEW key \in Key, NEW v \in Value,
           split' = [split EXCEPT !.fields[key] = v]
    PROVE  /\ split' \in Split /\ split'.fields = [split.fields EXCEPT ![key] = v]
           /\ UNCHANGED <<split.parameters, split.parameterCount, split.patches,
                          split.patchCount>>
  BY DEF Split

\* Reading a key of a parameter changes one slot of the array only.
LEMMA ParameterRead ==
    ASSUME split \in Split, NEW n \in 0 .. MaxParameters, NEW p \in Parameter,
           split' = [split EXCEPT !.parameters[n] = p]
    PROVE  /\ split' \in Split /\ split'.parameters = [split.parameters EXCEPT ![n] = p]
           /\ UNCHANGED <<split.fields, split.parameterCount, split.patches, split.patchCount>>
<1> DEFINE new == [split.parameters EXCEPT ![n] = p]
<1>1. split' = [split EXCEPT !.parameters = new]
  OBVIOUS
<1>2. new \in [0 .. MaxParameters -> Parameter]
  BY DEF Split
<1> HIDE DEF new
<1>3. /\ split' \in Split /\ split'.parameters = new
      /\ UNCHANGED <<split.fields, split.parameterCount, split.patches, split.patchCount>>
  BY <1>1, <1>2 DEF Split
<1> QED
  BY <1>3 DEF new

\* Reading a key of a patch changes one slot, and the counter points to it.
LEMMA PatchRead ==
    ASSUME split \in Split, NEW key \in {"Index", "Value"}, NEW v \in PatchValue,
           NEW n \in 0 .. MaxPatches,
           split' = PatchPut(split, n, key, v)
    PROVE  /\ split' \in Split /\ split'.patchCount = n
           /\ split'.patches =
                 [split.patches EXCEPT ![n] = [split.patches[n] EXCEPT ![key] = v]]
           /\ UNCHANGED <<split.fields, split.parameters, split.parameterCount>>
<1> DEFINE p == [split.patches[n] EXCEPT ![key] = v]
           new == [split.patches EXCEPT ![n] = p]
<1>1. split.patches \in [0 .. MaxPatches -> PatchOf]
  BY DEF Split
<1>2. p \in PatchOf
  BY <1>1, PatchEdited
<1>3. split' = [split EXCEPT !.patchCount = n, !.patches = new]
  BY DEF PatchPut
<1>4. new \in [0 .. MaxPatches -> PatchOf]
  <2> HIDE DEF p
  <2> QED
    BY <1>1, <1>2
<1>5. n \in 0 .. MaxPatches + 1
  BY BoundAssumption
<1> HIDE DEF new
<1>6. /\ split' \in Split /\ split'.patchCount = n /\ split'.patches = new
      /\ UNCHANGED <<split.fields, split.parameters, split.parameterCount>>
  BY <1>3, <1>4, <1>5 DEF Split
<1> QED
  BY <1>6 DEF new

\* The closing of a parameter, and of the list of patches.
LEMMA ParameterCounted ==
    ASSUME split \in Split, split.parameterCount + 1 \in 0 .. MaxParameters,
           split' = [split EXCEPT !.parameterCount = @ + 1]
    PROVE  /\ split' \in Split /\ split'.parameterCount = split.parameterCount + 1
           /\ UNCHANGED <<split.fields, split.parameters, split.patches, split.patchCount>>
  BY DEF Split

\* Counting a patch changes the counter only.
LEMMA PatchesCounted ==
    ASSUME split \in Split, split.patchCount + 1 \in 0 .. MaxPatches + 1,
           split' = [split EXCEPT !.patchCount = @ + 1]
    PROVE  /\ split' \in Split /\ split'.patchCount = split.patchCount + 1
           /\ UNCHANGED <<split.fields, split.parameters, split.parameterCount,
                          split.patches>>
  BY DEF Split

\* A cleared split has no field, no parameter and no patch.
LEMMA EmptyIsSplit ==
    /\ EmptySplit \in Split /\ EmptySplit.fields = Nothing
    /\ EmptySplit.parameterCount = 0 /\ EmptySplit.patchCount = 0
    /\ \A n \in 0 .. MaxParameters : EmptySplit.parameters[n] = NoParameter
    /\ \A n \in 0 .. MaxPatches : EmptySplit.patches[n] = NoPatch
<1>1. NoParameter \in Parameter /\ NoPatch \in PatchOf
  BY DEF NoParameter, NoPatch, Parameter, PatchOf
<1> QED
  BY <1>1, BoundAssumption DEF EmptySplit, Split, Nothing

-----------------------------------------------------------------------------
(* What has been read is what has been written.                             *)

\* A step that touches no parameter keeps those read those written.
LEMMA ParametersAside ==
    ASSUME ParametersKept,
           UNCHANGED <<draft.parameters, split.parameters, split.parameterCount>>,
           where' = "parameter" <=> where = "parameter"
    PROVE  ParametersKept'
  BY DEF ParametersKept, Listed

\* A step that touches no patch keeps those read those written.
LEMMA PatchesAside ==
    ASSUME PatchesWhole, PatchesKept,
           UNCHANGED <<draft.patches, split.patches, split.patchCount>>,
           "patches" \in draft'.has <=> "patches" \in draft.has,
           \/ where' = where
           \/ where \notin {"patches", "patch"} /\ where' \notin {"patches", "patch"}
    PROVE  PatchesWhole' /\ PatchesKept'
<1>1. PatchesWhole'
  BY DEF PatchesWhole, Written
<1>2. PatchSlot' = PatchSlot
  BY DEF PatchSlot
<1> QED
  BY <1>1, <1>2 DEF PatchesKept, Written

\* A step that closes no split.
LEMMA DraftedInside ==
    ASSUME Drafted, Nested', split' \in Split, UNCHANGED <<file, splits, splitCount>>,
           where' # "file", split'.fields = draft'.fields,
           ParametersKept', PatchesWhole', PatchesKept'
    PROVE  Drafted'
  BY DEF Drafted, ParsedAsWritten

\* Types of the entries of the file and of the split.
LEMMA Entries ==
    ASSUME Drafted
    PROVE  /\ draft \in Draft /\ split \in Split
           /\ draft.parameters \in Seq(Parameter) /\ draft.patches \in Seq(Given)
           /\ draft.has \subseteq Sections
           /\ Listed \in 0 .. MaxParameters /\ Written \in 0 .. MaxPatches
           /\ split.parameters \in [0 .. MaxParameters -> Parameter]
           /\ split.patches \in [0 .. MaxPatches -> PatchOf]
           /\ \A n \in 1 .. Listed : draft.parameters[n] \in Parameter
           /\ \A n \in 1 .. Written : draft.patches[n] \in Given
           /\ ParametersKept /\ PatchesWhole /\ PatchesKept
<1>1. draft \in Draft /\ split \in Split
  BY DEF Drafted, Nested
<1>2. draft.parameters \in Seq(Parameter) /\ draft.patches \in Seq(Given)
      /\ draft.has \subseteq Sections
  BY <1>1 DEF Draft
<1>3. Listed \in 0 .. MaxParameters /\ Written \in 0 .. MaxPatches
  BY <1>2, BoundAssumption DEF Drafted, ParametersKept, PatchesKept, Listed, Written
<1> QED
  BY <1>1, <1>2, <1>3 DEF Split, Drafted, Listed, Written

\* A key that only opens a section, or a mapping the parser does not fill.
LEMMA OpeningKeeps ==
    ASSUME Drafted, Nested',
           split' = split, UNCHANGED <<file, splits, splitCount>>,
           where' # "file", where' # "parameter", where # "parameter",
           where \notin {"patches", "patch"} /\ where' \notin {"patches", "patch"},
           UNCHANGED <<draft.fields, draft.parameters, draft.patches>>,
           "patches" \in draft'.has <=> "patches" \in draft.has
    PROVE  Drafted'
<1>1. ParametersKept'
  BY ParametersAside DEF Drafted
<1>2. PatchesWhole' /\ PatchesKept'
  BY PatchesAside DEF Drafted
<1> QED
  BY <1>1, <1>2, DraftedInside DEF Drafted

\* The start of a parameter: the slot it is given is the next of the array.
LEMMA OpenParameterKeeps ==
    ASSUME Drafted, Nested', OpenParameter
    PROVE  Drafted'
<1>1. /\ where = "parameters" /\ where' = "parameter" /\ Listed < MaxParameters
      /\ draft' = [draft EXCEPT !.parameters = Append(@, NoParameter)]
      /\ StartMapping /\ file' = file
  BY DEF OpenParameter, Reading, Listed
<1>2. state = "SIGNATURE"
  BY <1>1, StateAt DEF Drafted
<1>3. /\ split' = [split EXCEPT !.parameters[split.parameterCount].Register = A0]
      /\ UNCHANGED <<splits, splitCount>>
  BY <1>1, <1>2 DEF StartMapping
<1>4. /\ draft'.parameters = Append(draft.parameters, NoParameter)
      /\ UNCHANGED <<draft.fields, draft.patches, draft.has>>
  BY <1>1, ParameterOpened, Entries
<1>5. split.parameterCount = Listed /\ Listed \in 0 .. MaxParameters
  BY <1>1, Entries DEF ParametersKept
<1>6. /\ split' \in Split
      /\ split'.parameters = [split.parameters EXCEPT ![Listed] =
                                 [split.parameters[Listed] EXCEPT !["Register"] = A0]]
      /\ UNCHANGED <<split.fields, split.parameterCount, split.patches, split.patchCount>>
  <2> DEFINE p == [split.parameters[Listed] EXCEPT !["Register"] = A0]
  <2>1. split.parameters[Listed] \in Parameter
    BY <1>5, Entries
  <2>2. p \in Parameter
    BY <2>1 DEF Parameter
  <2>3. split' = [split EXCEPT !.parameters[Listed] = p]
    BY <1>3, <1>5
  <2> HIDE DEF p
  <2>4. /\ split' \in Split /\ split'.parameters = [split.parameters EXCEPT ![Listed] = p]
        /\ UNCHANGED <<split.fields, split.parameterCount, split.patches, split.patchCount>>
    BY <2>2, <2>3, <1>5, Entries, ParameterRead
  <2> QED
    BY <2>4 DEF p
<1>7. ParametersKept'
  <2>1. Listed' = Listed + 1
    BY <1>4, InA0Is, Entries DEF Listed
  <2>2. /\ \A n \in 1 .. Listed : draft'.parameters[n] = draft.parameters[n]
        /\ draft'.parameters[Listed + 1] = NoParameter
    BY <1>4, <2>1, InA0Is, Entries DEF Listed
  <2>3. \A n \in 0 .. MaxParameters :
           split.parameters[n] = IF n < Listed THEN InA0(draft.parameters[n + 1])
                                 ELSE NoParameter
    BY Entries DEF ParametersKept
  <2>4. /\ split'.parameters[Listed] = InA0(NoParameter)
        /\ \A n \in 0 .. MaxParameters : n # Listed =>
              split'.parameters[n] = split.parameters[n]
    <3>1. split.parameters[Listed] = NoParameter
      BY <2>3, <1>5, BoundAssumption
    <3> QED
      BY <3>1, <1>5, <1>6, InA0Is, Entries
  <2>5. \A n \in 0 .. MaxParameters :
           split'.parameters[n] = IF n < Listed + 1 THEN InA0(draft'.parameters[n + 1])
                                  ELSE NoParameter
    <3> SUFFICES ASSUME NEW n \in 0 .. MaxParameters
                 PROVE  split'.parameters[n] =
                           IF n < Listed + 1 THEN InA0(draft'.parameters[n + 1])
                           ELSE NoParameter
      OBVIOUS
    <3>1. CASE n < Listed
      <4>1. n + 1 \in 1 .. Listed /\ n # Listed /\ n < Listed + 1
        BY <3>1, <1>5, BoundAssumption
      <4> QED
        BY <4>1, <3>1, <2>2, <2>3, <2>4
    <3>2. CASE n = Listed
      BY <3>2, <2>2, <2>4, <1>5, BoundAssumption
    <3>3. CASE n > Listed
      <4>1. ~(n < Listed) /\ n # Listed /\ ~(n < Listed + 1)
        BY <3>3, <1>5, BoundAssumption
      <4> QED
        BY <4>1, <2>3, <2>4
    <3> QED
      BY <3>1, <3>2, <3>3, <1>5, BoundAssumption
  <2>6. /\ Listed' =< MaxParameters
        /\ split'.parameterCount = IF where' = "parameter" THEN Listed' - 1 ELSE Listed'
    BY <1>1, <1>5, <1>6, <2>1, BoundAssumption
  <2> QED
    BY <2>1, <2>5, <2>6 DEF ParametersKept
<1>8. PatchesWhole' /\ PatchesKept'
  BY <1>1, <1>4, <1>6, PatchesAside, Entries
<1>9. split'.fields = draft'.fields
  BY <1>4, <1>6 DEF Drafted
<1> QED
  BY <1>1, <1>3, <1>6, <1>7, <1>8, <1>9, DraftedInside

\* The key Patches: no patch has been read yet.
LEMMA KeyPatchesKeeps ==
    ASSUME Drafted, Nested', KeyPatches
    PROVE  Drafted'
<1>1. /\ where = "split" /\ where' = "patches" /\ "patches" \notin draft.has
      /\ draft' = [draft EXCEPT !.has = @ \cup {"patches"}]
      /\ UNCHANGED <<split, splitCount, splits, file>>
  BY DEF KeyPatches, Reading, SwitchToPatches
<1>2. /\ draft'.has = draft.has \cup {"patches"}
      /\ UNCHANGED <<draft.fields, draft.parameters, draft.patches>>
  BY <1>1, SectionOpened, Entries DEF Sections
<1>3. ParametersKept'
  BY <1>1, <1>2, ParametersAside, Entries
<1>4. Written = 0 /\ split.patchCount = 0 /\ Extent(draft.patches) = 1
  <2>1. Written = 0 /\ split.patchCount = 0
    BY <1>1, Entries DEF PatchesWhole, PatchesKept
  <2> QED
    BY <2>1, Entries, ExtentIs DEF Written
<1>5. PatchesWhole'
  BY <1>1, <1>2, <1>4, Entries DEF PatchesWhole, Written
<1>6. PatchesKept'
  BY <1>1, <1>2, <1>4, Entries DEF PatchesKept, Written
<1> QED
  BY <1>1, <1>2, <1>3, <1>5, <1>6, DraftedInside, Entries DEF Drafted

\* The start of a patch: no slot changes, and the one for its first key is free.
LEMMA OpenPatchKeeps ==
    ASSUME Drafted, Nested', OpenPatch
    PROVE  Drafted'
<1>1. /\ where = "patches" /\ where' = "patch" /\ Written < MaxPatches
      /\ draft' = [draft EXCEPT !.patches = Append(@, NewPatch)]
      /\ StartMapping /\ file' = file
  BY DEF OpenPatch, Reading, Written
<1>2. state = "PATCH_ARRAY"
  BY <1>1, StateAt DEF Drafted
<1>3. UNCHANGED <<split, splits, splitCount>>
  BY <1>1, <1>2 DEF StartMapping
<1>4. /\ draft'.patches = Append(draft.patches, NewPatch)
      /\ UNCHANGED <<draft.fields, draft.parameters, draft.has>>
  BY <1>1, PatchOpened, Entries
<1>5. Written' = Written + 1 /\ NewPatch \in Given
      /\ InOrder(NewPatch) /\ ~Complete(NewPatch) /\ NewPatch.Value = Null
  BY <1>4, Entries DEF Written, NewPatch, Given, InOrder, Complete
<1>6. /\ \A n \in 1 .. Written : draft'.patches[n] = draft.patches[n]
      /\ draft'.patches[Written + 1] = NewPatch
  BY <1>4, <1>5, Entries DEF Written
<1>7. Written \in 0 .. MaxPatches /\ Written \in Nat
  BY Entries, BoundAssumption
<1>8. PatchesWhole'
  <2>1. "patches" \in draft'.has
    BY <1>1, <1>4, Entries DEF PatchesWhole
  <2>2. \A n \in 1 .. Written : InOrder(draft.patches[n]) /\ Complete(draft.patches[n])
    BY <1>1, Entries DEF PatchesWhole
  <2>3. \A n \in 1 .. Written' : InOrder(draft'.patches[n])
                                /\ (n < Written' => Complete(draft'.patches[n]))
    BY <2>2, <1>5, <1>6, <1>7
  <2> QED
    BY <2>1, <2>3, <1>1 DEF PatchesWhole
<1>9. PatchesKept'
  <2>1. \A n \in 0 .. MaxPatches : split'.patches[n] = Slot(draft'.patches, n + 1)
    <3> SUFFICES ASSUME NEW n \in 0 .. MaxPatches
                 PROVE  split'.patches[n] = Slot(draft'.patches, n + 1)
      OBVIOUS
    <3>1. split'.patches[n] = Slot(draft.patches, n + 1) /\ n + 1 \in Nat \ {0}
      BY <1>3, Entries, BoundAssumption DEF PatchesKept
    <3> QED
      BY <3>1, <1>4, SlotOpened, Entries
  <2>2. split.patchCount = Extent(draft.patches) - 1
    BY <1>1, Entries DEF PatchesKept
  <2>3. PatchSlot = Written
    <3>1. \A n \in 0 .. MaxPatches : split.patches[n].Value =
             IF n + 1 \in 1 .. Written THEN draft.patches[n + 1].Value ELSE Null
      <4>1. \A n \in 0 .. MaxPatches : split.patches[n].Value = ValueKept(draft.patches, n + 1)
        <5>1. \A n \in 0 .. MaxPatches : split.patches[n] = Slot(draft.patches, n + 1)
          BY Entries DEF PatchesKept
        <5>2. \A n \in 0 .. MaxPatches : Slot(draft.patches, n + 1).Value =
                                           ValueKept(draft.patches, n + 1)
          BY SMT DEF Slot
        <5> QED
          BY SMT, <5>1, <5>2
      <4>2. DOMAIN draft.patches = 1 .. Written
        BY Entries DEF Written
      <4> QED
        BY <4>1, <4>2 DEF ValueKept
    <3>2. CASE Written = 0
      <4>1. split.patchCount = 0
        BY <2>2, <3>2, ExtentIs, Entries DEF Written
      <4>2. split.patches[0].Value = Null
        BY <3>1, <3>2, BoundAssumption
      <4> QED
        BY <4>1, <4>2, <3>2 DEF PatchSlot
    <3>3. CASE Written > 0 /\ draft.patches[Written].first = "Value"
      <4>1. split.patchCount = Written
        BY <2>2, <3>3, <1>7, ExtentIs, Entries DEF Written
      <4>2. Written \in 0 .. MaxPatches /\ Written + 1 \notin 1 .. Written
        BY <1>7
      <4> QED
        BY <4>1, <4>2, <3>1 DEF PatchSlot
    <3>4. CASE Written > 0 /\ draft.patches[Written].first # "Value"
      <4>1. split.patchCount = Written - 1
        BY <2>2, <3>4, <1>7, ExtentIs, Entries DEF Written
      <4>2. /\ Written - 1 \in 0 .. MaxPatches /\ (Written - 1) + 1 = Written
            /\ Written \in 1 .. Written
        BY <3>4, <1>7, BoundAssumption
      <4>3. draft.patches[Written].Value # Null
        BY <4>2, <1>1, Entries DEF PatchesWhole, Complete
      <4>4. split.patches[Written - 1].Value # Null
        BY <4>2, <4>3, <3>1
      <4> QED
        BY <4>1, <4>2, <4>4 DEF PatchSlot
    <3> QED
      BY <3>2, <3>3, <3>4, <1>7
  <2>4. draft'.patches[Written'] = NewPatch
    BY <1>5, <1>6
  <2>5. "patches" \in draft'.has
    BY <1>1, <1>4, Entries DEF PatchesWhole
  <2>6. Written' =< MaxPatches
    BY <1>1, <1>5, <1>7, BoundAssumption
  <2>7. PatchSlot' = NextSlot(draft'.patches) - 1
    <3>1. NextSlot(draft'.patches) = Written + 1
      BY <2>4, <1>5 DEF NextSlot, Written
    <3>2. PatchSlot' = Written
      BY <2>3, <1>3 DEF PatchSlot
    <3> QED
      BY <3>1, <3>2, <1>7
  <2> QED
    BY <2>1, <2>4, <2>5, <2>6, <2>7, <1>1, <1>5 DEF PatchesKept
<1>a. ParametersKept'
  BY <1>1, <1>3, <1>4, ParametersAside, Entries
<1> QED
  BY <1>1, <1>3, <1>4, <1>8, <1>9, <1>a, DraftedInside, Entries DEF Drafted

\* A field of a split or of its signature is read into the field written.
LEMMA WriteFieldKeeps ==
    ASSUME Drafted, Nested', NEW v \in Value, NEW key \in Key, WriteField(key, v)
    PROVE  Drafted'
<1>1. /\ \/ where = "split" /\ key \in SplitKey
         \/ where = "signature" /\ key \in SignatureKey
      /\ draft' = [draft EXCEPT !.fields[key] = v]
      /\ Scalar(key, v) /\ UNCHANGED <<where, file>>
  BY DEF WriteField, Reading
<1>2. /\ split' = [split EXCEPT !.fields[key] = v]
      /\ UNCHANGED <<splits, splitCount>>
  <2>1. \/ state = "SPLIT" /\ key \in SplitKey
        \/ state = "SIGNATURE" /\ key \in SignatureKey
    BY <1>1, StateAt DEF Drafted
  <2>2. Scalar(key, v)
    BY <1>1
  <2> QED
    BY <2>1, <2>2, ScalarIs
<1>3. /\ draft'.fields = [draft.fields EXCEPT ![key] = v]
      /\ UNCHANGED <<draft.parameters, draft.patches, draft.has>>
  BY <1>1, FieldWritten, Entries
<1>4. /\ split' \in Split /\ split'.fields = [split.fields EXCEPT ![key] = v]
      /\ UNCHANGED <<split.parameters, split.parameterCount, split.patches, split.patchCount>>
  BY <1>2, FieldRead, Entries
<1>5. ParametersKept' /\ PatchesWhole' /\ PatchesKept'
  <2>1. where' = where
    BY <1>1
  <2>2. ParametersKept'
    BY <2>1, <1>3, <1>4, ParametersAside, Entries
  <2>3. PatchesWhole' /\ PatchesKept'
    BY <2>1, <1>3, <1>4, PatchesAside, Entries
  <2> QED
    BY <2>2, <2>3
<1>6. where' # "file" /\ split'.fields = draft'.fields
  BY <1>1, <1>3, <1>4 DEF Drafted
<1> QED
  BY <1>1, <1>2, <1>4, <1>5, <1>6, DraftedInside

\* A key of a parameter is read into the slot of that parameter.
LEMMA WriteParameterKeeps ==
    ASSUME Drafted, Nested', NEW key, NEW v, Fits(key, v), WriteParameter(key, v)
    PROVE  Drafted'
<1>1. /\ where = "parameter" /\ UNCHANGED <<where, file>>
      /\ draft' = [draft EXCEPT !.parameters[Listed][key] = v]
      /\ Scalar(key, v)
  BY DEF WriteParameter, Reading, Listed
<1>2. Listed \in 1 .. Listed /\ Listed \in 0 .. MaxParameters
      /\ split.parameterCount = Listed - 1 /\ Listed - 1 \in 0 .. MaxParameters
      /\ (Listed - 1) + 1 = Listed /\ Listed - 1 < Listed
  <2>1. Listed \in 0 .. MaxParameters /\ Listed > 0 /\ split.parameterCount = Listed - 1
    BY <1>1, Entries DEF Drafted, Nested, ParametersKept
  <2> QED
    BY <2>1, BoundAssumption
<1>3. /\ draft'.parameters = [draft.parameters EXCEPT ![Listed] =
                                 [draft.parameters[Listed] EXCEPT ![key] = v]]
      /\ Len(draft'.parameters) = Listed
      /\ UNCHANGED <<draft.fields, draft.patches, draft.has>>
  <2>1. draft \in Draft /\ Listed \in 1 .. Listed
    BY <1>2, Entries
  <2> QED
    BY <2>1, <1>1, ParameterWritten
<1>4. Listed' = Listed
  BY <1>3 DEF Listed
<1>5. UNCHANGED <<splits, splitCount>>
  BY <1>1, ScalarIs
<1>6. \A n \in 0 .. MaxParameters :
         split.parameters[n] = IF n < Listed THEN InA0(draft.parameters[n + 1])
                               ELSE NoParameter
  BY Entries DEF ParametersKept
<1> DEFINE old == draft.parameters[Listed]
           new == [old EXCEPT ![key] = v]
           kept == split.parameters[Listed - 1]
<1>7. old \in Parameter /\ kept = InA0(old)
  BY <1>2, <1>6, Entries
<1>8. new \in Parameter /\ InA0(new) = IF key = "Register" THEN kept ELSE [kept EXCEPT ![key] = v]
  <2> HIDE DEF old, kept
  <2>1. /\ new \in Parameter
        /\ key # "Register" => InA0(new) = [InA0(old) EXCEPT ![key] = v]
        /\ key = "Register" => InA0(new) = InA0(old)
    BY <1>7, ParameterEdited
  <2> QED
    BY <1>7, <2>1
<1>d. /\ draft'.parameters[Listed] = new
      /\ \A n \in 1 .. Listed : n # Listed => draft'.parameters[n] = draft.parameters[n]
  <2> HIDE DEF new
  <2>1. draft'.parameters = [draft.parameters EXCEPT ![Listed] = new]
    BY <1>3 DEF new
  <2> QED
    BY <2>1, <1>2, Entries DEF Listed
<1>9. /\ split' \in Split /\ UNCHANGED <<split.fields, split.parameterCount, split.patches,
                                         split.patchCount>>
      /\ split'.parameters[Listed - 1] = InA0(new)
      /\ \A n \in 0 .. MaxParameters : n # Listed - 1 =>
            split'.parameters[n] = split.parameters[n]
  <2>1. CASE key = "Register"
    <3>1. split' = split
      BY <1>1, <2>1, ScalarIs, StateAt DEF Drafted
    <3> QED
      BY <3>1, <1>8, <2>1, Entries
  <2>2. CASE key # "Register"
    <3>1. split' = [split EXCEPT !.parameters[Listed - 1][key] = v]
      <4>1. key \in {"Type", "Name"}
        BY <2>2 DEF Fits
      <4>2. state = "PARAMETER" /\ Scalar(key, v)
        BY <1>1, StateAt DEF Drafted
      <4>3. split' = [split EXCEPT !.parameters[split.parameterCount][key] = v]
        BY <4>1, <4>2, ScalarIs
      <4> QED
        BY <4>3, <1>2
    <3>2. split' = [split EXCEPT !.parameters[Listed - 1] = InA0(new)]
      <4>1. split' = [split EXCEPT !.parameters[Listed - 1] = [kept EXCEPT ![key] = v]]
        BY <3>1
      <4> QED
        BY <4>1, <1>8, <2>2
    <3>3. InA0(new) \in Parameter
      BY <1>8, InA0Is
    <3> HIDE DEF new, kept
    <3>4. /\ split' \in Split
          /\ UNCHANGED <<split.fields, split.parameterCount, split.patches, split.patchCount>>
          /\ split'.parameters = [split.parameters EXCEPT ![Listed - 1] = InA0(new)]
      BY <3>2, <3>3, <1>2, Entries, ParameterRead
    <3> QED
      BY <3>4, <1>2, Entries
  <2> QED
    BY <2>1, <2>2
<1>e. \A n \in 0 .. MaxParameters :
         split'.parameters[n] = IF n < Listed THEN InA0(draft'.parameters[n + 1])
                                ELSE NoParameter
  <2> HIDE DEF new, kept
  <2> SUFFICES ASSUME NEW n \in 0 .. MaxParameters
               PROVE  split'.parameters[n] = IF n < Listed THEN InA0(draft'.parameters[n + 1])
                                             ELSE NoParameter
    OBVIOUS
  <2>1. CASE n = Listed - 1
    <3>1. n + 1 = Listed /\ n < Listed
      BY <2>1, <1>2
    <3> QED
      BY <3>1, <2>1, <1>9, <1>d
  <2>2. CASE n < Listed - 1
    <3>1. n + 1 \in 1 .. Listed /\ n + 1 # Listed /\ n < Listed /\ n # Listed - 1
      BY <2>2, <1>2, BoundAssumption
    <3> QED
      BY <3>1, <1>6, <1>9, <1>d
  <2>3. CASE n > Listed - 1
    <3>1. ~(n < Listed) /\ n # Listed - 1
      BY <2>3, <1>2, BoundAssumption
    <3> QED
      BY <3>1, <1>6, <1>9
  <2> QED
    BY <2>1, <2>2, <2>3, <1>2, BoundAssumption
<1> HIDE DEF new, kept
<1>a. ParametersKept'
  <2>1. Listed' =< MaxParameters /\ split'.parameterCount = Listed' - 1
    BY <1>2, <1>4, <1>9, BoundAssumption
  <2> QED
    BY <2>1, <1>1, <1>4, <1>e DEF ParametersKept
<1>b. PatchesWhole' /\ PatchesKept'
  BY <1>1, <1>3, <1>9, PatchesAside, Entries
<1>c. where' # "file" /\ split'.fields = draft'.fields
  BY <1>1, <1>3, <1>9 DEF Drafted
<1> QED
  BY <1>1, <1>5, <1>9, <1>a, <1>b, <1>c, DraftedInside

\* A key of a patch is read into the slot of that patch, or into the next if
\* the patch has a value already.
LEMMA WritePatchKeeps ==
    ASSUME Drafted, Nested', NEW v \in PatchValue,
           NEW key \in {"Index", "Value"}, WritePatch(key, v)
    PROVE  Drafted'
<1> DEFINE old == draft.patches[Written]
           new == Edited(old, key, v)
           k   == NextSlot(draft.patches)
<1>1. /\ where = "patch" /\ UNCHANGED <<where, file>>
      /\ old[key] = Null
      /\ draft' = [draft EXCEPT !.patches[Written] = Edited(@, key, v)]
      /\ Scalar(key, v)
  BY DEF WritePatch, Reading, Written
<1>2. Written \in 1 .. MaxPatches /\ Written \in Nat \ {0} /\ v # Null
  BY <1>1, Entries, BoundAssumption, ValueAssumption DEF Drafted, Nested
<1>3. old \in Given /\ InOrder(old)
  BY <1>2, Entries DEF PatchesWhole
<1>4. /\ new \in Given
      /\ new.Index = IF key = "Index" THEN v ELSE old.Index
      /\ new.Value = IF key = "Value" THEN v ELSE old.Value
      /\ new.first = IF old.first = "none" THEN key ELSE old.first
  BY <1>3, PatchGiven
<1>5. /\ draft'.patches = [draft.patches EXCEPT ![Written] = new]
      /\ Len(draft'.patches) = Written
      /\ UNCHANGED <<draft.fields, draft.parameters, draft.has>>
  <2>1. Written \in 1 .. Written /\ draft \in Draft
    BY <1>2, Entries
  <2> QED
    BY <2>1, <1>1, PatchWritten
<1>g. k = (IF old.Value = Null THEN Written ELSE Written + 1) /\ old[key] = Null
  BY <1>1 DEF NextSlot, Written
<1>h. draft'.patches = Keyed(draft.patches, key, v)
  BY <1>5 DEF Keyed, Written
<1> HIDE DEF new, old
<1>6. /\ Written' = Written
      /\ draft'.patches[Written] = new
      /\ \A n \in 1 .. Written : n # Written => draft'.patches[n] = draft.patches[n]
  BY <1>2, <1>4, <1>5, Entries, ExceptSeq DEF Written
<1>7. /\ PatchSlot = k - 1 /\ k - 1 \in 0 .. MaxPatches /\ k \in Nat \ {0}
      /\ split.patches[k - 1] = Slot(draft.patches, k)
  <2>1. ~Complete(draft.patches[Written])
    BY <1>g DEF Complete, old
  <2>2. PatchSlot = k - 1
    BY <2>1, <1>1, Entries DEF PatchesKept
  <2> HIDE DEF k
  <2>3. k - 1 \in 0 .. MaxPatches /\ (k - 1) + 1 = k /\ k \in Nat \ {0}
    BY <1>2, <1>g, BoundAssumption
  <2>4. split.patches[k - 1] = Slot(draft.patches, k)
    BY <2>3, Entries DEF PatchesKept
  <2> QED
    BY <2>2, <2>3, <2>4
<1>8. /\ split' = PatchPut(split, PatchSlot, key, v)
      /\ UNCHANGED <<splits, splitCount>>
  <2>1. state = "PATCH" /\ Scalar(key, v)
    BY <1>1, StateAt DEF Drafted
  <2>2. UNCHANGED <<splits, splitCount>>
    BY <2>1, ScalarIs
  <2>3. split' = PatchPut(split, PatchSlot, key, v)
    BY <2>1, ScalarIs
  <2> QED
    BY <2>2, <2>3
<1>9. /\ split' \in Split /\ split'.patchCount = k - 1
      /\ split'.patches = [split.patches EXCEPT ![k - 1] =
                              [split.patches[k - 1] EXCEPT ![key] = v]]
      /\ UNCHANGED <<split.fields, split.parameters, split.parameterCount>>
  <2> DEFINE n == k - 1
  <2>1. split' = PatchPut(split, n, key, v) /\ n \in 0 .. MaxPatches /\ split \in Split
    BY <1>7, <1>8, Entries
  <2> HIDE DEF n
  <2>2. /\ split' \in Split /\ split'.patchCount = n
        /\ split'.patches = [split.patches EXCEPT ![n] = [split.patches[n] EXCEPT ![key] = v]]
        /\ UNCHANGED <<split.fields, split.parameters, split.parameterCount>>
    BY <2>1, PatchRead
  <2> QED
    BY <2>2 DEF n
<1>a. \A n \in 0 .. MaxPatches : split'.patches[n] = Slot(draft'.patches, n + 1)
  <2> DEFINE ps == draft.patches
  <2>1. /\ ps \in Seq(Given) /\ Len(ps) > 0 /\ InOrder(ps[Len(ps)])
        /\ ps[Len(ps)][key] = Null
    BY <1>2, <1>3, <1>g, Entries DEF old, Written
  <2>2. split.patches[k - 1] \in PatchOf /\ split.patches[k - 1] = Slot(ps, k)
    BY <1>7, Entries
  <2>3. split'.patches[k - 1] = [split.patches[k - 1] EXCEPT ![key] = v]
    BY <1>7, <1>9, Entries
  <2>4. \A n \in 0 .. MaxPatches : n # k - 1 => split'.patches[n] = split.patches[n]
    BY <1>7, <1>9, Entries
  <2>5. ASSUME NEW n \in Nat \ {0}
        PROVE  /\ IndexKept(draft'.patches, n) =
                      IF n = k /\ key = "Index" THEN v ELSE IndexKept(ps, n)
               /\ ValueKept(draft'.patches, n) =
                      IF n = k /\ key = "Value" THEN v ELSE ValueKept(ps, n)
    <3> HIDE DEF ps
    <3>1. /\ IndexKept(Keyed(ps, key, v), n) =
                 IF n = NextSlot(ps) /\ key = "Index" THEN v ELSE IndexKept(ps, n)
          /\ ValueKept(Keyed(ps, key, v), n) =
                 IF n = NextSlot(ps) /\ key = "Value" THEN v ELSE ValueKept(ps, n)
      BY <2>1, SlotWritten
    <3> QED
      BY <3>1, <1>h DEF ps
  <2> HIDE DEF k, ps
  <2> SUFFICES ASSUME NEW n \in 0 .. MaxPatches
               PROVE  split'.patches[n] = Slot(draft'.patches, n + 1)
    OBVIOUS
  <2>6. n + 1 \in Nat \ {0} /\ (n = k - 1 <=> n + 1 = k)
    BY <1>7, BoundAssumption
  <2>7. CASE n # k - 1
    <3>1. split.patches[n] = Slot(ps, n + 1)
      BY Entries DEF PatchesKept, ps
    <3>2. Slot(draft'.patches, n + 1) = Slot(ps, n + 1)
      BY <2>5, <2>6, <2>7 DEF Slot
    <3> QED
      BY <3>1, <3>2, <2>4, <2>7
  <2>8. CASE n = k - 1
    <3> DEFINE was == split.patches[k - 1]
               now == [was EXCEPT ![key] = v]
    <3>1. was.Index = IndexKept(ps, k) /\ was.Value = ValueKept(ps, k)
      BY <2>2 DEF Slot
    <3>2. /\ now \in PatchOf
          /\ now.Index = IF key = "Index" THEN v ELSE was.Index
          /\ now.Value = IF key = "Value" THEN v ELSE was.Value
      <4> HIDE DEF was
      <4>1. was \in PatchOf
        BY <2>2 DEF was
      <4> QED
        BY <4>1, PatchEdited
    <3>3. split'.patches[n] = now
      BY <2>3, <2>8
    <3> HIDE DEF was, now
    <3>4. /\ IndexKept(draft'.patches, n + 1) = now.Index
          /\ ValueKept(draft'.patches, n + 1) = now.Value
      BY <3>1, <3>2, <2>5, <2>6, <2>8
    <3>5. now = [Index |-> now.Index, Value |-> now.Value]
      BY <3>2, PatchIs
    <3> QED
      BY <3>3, <3>4, <3>5 DEF Slot
  <2> QED
    BY <2>7, <2>8
<1>b. /\ key = "Index" /\ old.Value = Null => old.first = "none"
      /\ key = "Index" /\ old.Value # Null => old.first = "Value"
      /\ key = "Value" => old.first \in {"none", "Index"}
      /\ key = "Value" => (old.first = "Index" <=> old.Index # Null)
  BY <1>g, <1>3 DEF InOrder, Given
<1> HIDE DEF k
<1>c. PatchesWhole'
  <2>1. "patches" \in draft'.has
    BY <1>1, <1>5, Entries DEF PatchesWhole
  <2>2. InOrder(new)
    BY <1>g, <1>2, <1>3, <1>4, <1>b DEF InOrder, Given
  <2>3. \A n \in 1 .. Written : /\ InOrder(draft.patches[n])
                                /\ n < Written => Complete(draft.patches[n])
    BY Entries DEF PatchesWhole
  <2>4. \A n \in 1 .. Written' : /\ InOrder(draft'.patches[n])
                                 /\ n < Written' => Complete(draft'.patches[n])
    BY <2>2, <2>3, <1>2, <1>6
  <2> QED
    BY <2>1, <2>4, <1>1 DEF PatchesWhole
<1>d. PatchesKept'
  <2>1. "patches" \in draft'.has /\ draft'.patches \in Seq(Given) /\ Len(draft'.patches) = Written
    BY <1>1, <1>5, Entries DEF PatchesWhole, Nested, Draft
  <2>2. Complete(new) => split'.patchCount = Extent(draft'.patches) - 1
    <3>1. Extent(draft'.patches) = IF new.first = "Value" THEN Written + 1 ELSE Written
      BY <2>1, <1>2, <1>6, ExtentIs
    <3>2. Complete(new) => k = Extent(draft'.patches)
      BY <3>1, <1>g, <1>4, <1>b DEF Complete
    <3> QED
      BY <3>2, <1>9
  <2>3. ~Complete(new) => PatchSlot' = NextSlot(draft'.patches) - 1
    <3> SUFFICES ASSUME ~Complete(new)
                 PROVE  PatchSlot' = NextSlot(draft'.patches) - 1
      OBVIOUS
    <3>1. old.Value = Null
      BY <1>g, <1>2, <1>4 DEF Complete
    <3>2. split'.patchCount = Written - 1
      BY <3>1, <1>9, <1>g
    <3>4. NextSlot(draft'.patches) = IF new.Value = Null THEN Written ELSE Written + 1
      BY <2>1, <1>6 DEF NextSlot
    <3>3. split'.patches[Written - 1].Value = new.Value
      <4>1. /\ Written - 1 \in 0 .. MaxPatches /\ (Written - 1) + 1 = Written
            /\ Written \in DOMAIN draft'.patches
        BY <1>2, <2>1, BoundAssumption
      <4>2. split'.patches[Written - 1] = Slot(draft'.patches, Written)
        BY <4>1, <1>a
      <4> QED
        BY <4>1, <4>2, <1>6 DEF Slot, ValueKept
    <3> QED
      BY <3>2, <3>3, <3>4, <1>2 DEF PatchSlot
  <2> QED
    BY <2>1, <2>2, <2>3, <1>1, <1>2, <1>6, <1>a DEF PatchesKept
<1>e. ParametersKept'
  BY <1>1, <1>5, <1>9, ParametersAside, Entries
<1>f. where' # "file" /\ split'.fields = draft'.fields
  BY <1>1, <1>5, <1>9 DEF Drafted
<1> QED
  BY <1>1, <1>8, <1>9, <1>c, <1>d, <1>e, <1>f, DraftedInside

\* The end of a parameter: it is counted.
LEMMA CloseParameterKeeps ==
    ASSUME Drafted, Nested', CloseParameter
    PROVE  Drafted'
<1>1. /\ where = "parameter" /\ where' = "parameters" /\ EndMapping
      /\ UNCHANGED <<draft, file>>
  BY DEF CloseParameter, Reading
<1>2. state = "PARAMETER"
  BY <1>1, StateAt DEF Drafted
<1>3. /\ split' = [split EXCEPT !.parameterCount = @ + 1]
      /\ UNCHANGED <<splits, splitCount>>
  BY <1>1, <1>2, InnerEnd, CountedIs
<1>4. Listed \in 0 .. MaxParameters /\ split.parameterCount = Listed - 1
  BY <1>1, Entries DEF ParametersKept
<1>5. split.parameterCount + 1 = Listed
  BY <1>4, BoundAssumption
<1>6. /\ split' \in Split /\ split'.parameterCount = Listed
      /\ UNCHANGED <<split.fields, split.parameters, split.patches, split.patchCount>>
  BY <1>3, <1>4, <1>5, ParameterCounted, Entries
<1>7. ParametersKept'
  BY <1>1, <1>6, Entries DEF ParametersKept, Listed
<1>8. PatchesWhole' /\ PatchesKept'
  BY <1>1, <1>6, PatchesAside, Entries
<1> QED
  BY <1>1, <1>3, <1>6, <1>7, <1>8, DraftedInside DEF Drafted

\* The end of a patch: it is not counted before the next one begins.
LEMMA ClosePatchKeeps ==
    ASSUME Drafted, Nested', ClosePatch
    PROVE  Drafted'
<1>1. /\ where = "patch" /\ where' = "patches" /\ EndMapping
      /\ UNCHANGED <<draft, file>>
      /\ draft.patches[Written].Index # Null /\ draft.patches[Written].Value # Null
  BY DEF ClosePatch, Reading, Written
<1>2. state = "PATCH"
  BY <1>1, StateAt DEF Drafted
<1>3. split' = split /\ UNCHANGED <<splits, splitCount>>
  BY <1>1, <1>2, InnerEnd, CountedIs
<1>4. Written \in 1 .. MaxPatches /\ Complete(draft.patches[Written])
  BY <1>1, Entries, BoundAssumption DEF Drafted, Nested, Complete
<1>5. Written' = Written
  BY <1>1 DEF Written
<1>6. PatchesWhole'
  <2>1. \A n \in 1 .. Written : Complete(draft.patches[n])
    BY <1>1, <1>4, Entries, BoundAssumption DEF PatchesWhole
  <2> QED
    BY <2>1, <1>1, <1>5, Entries DEF PatchesWhole
<1>7. PatchesKept'
  <2>1. split.patchCount = Extent(draft.patches) - 1 /\ "patches" \in draft.has
    BY <1>1, <1>4, Entries DEF PatchesKept, PatchesWhole
  <2> QED
    BY <2>1, <1>1, <1>3, <1>5, Entries DEF PatchesKept
<1>8. ParametersKept'
  BY <1>1, <1>3, ParametersAside, Entries
<1> QED
  BY <1>1, <1>3, <1>6, <1>7, <1>8, DraftedInside, Entries DEF Drafted

\* The end of the patches: the last slot is counted.
LEMMA ClosePatchesKeeps ==
    ASSUME Drafted, Nested', CloseSequence, where = "patches"
    PROVE  Drafted'
<1>1. where' = "split" /\ EndSequence /\ UNCHANGED <<draft, file>>
  BY DEF CloseSequence, Reading
<1>2. state = "PATCH_ARRAY"
  BY StateAt DEF Drafted
<1>3. /\ split' = [split EXCEPT !.patchCount = @ + 1]
      /\ UNCHANGED <<splits, splitCount>>
  BY <1>1, <1>2, InnerEnd, CountedIs DEF EndSequence
<1>4. Written \in 0 .. MaxPatches /\ "patches" \in draft.has
      /\ split.patchCount = Extent(draft.patches) - 1
  BY Entries DEF PatchesKept, PatchesWhole
<1>5. /\ split.patchCount + 1 \in 0 .. MaxPatches + 1
      /\ split.patchCount + 1 = Extent(draft.patches)
  <2>1. Extent(draft.patches) \in 0 .. MaxPatches + 1
    BY <1>4, ExtentIs, Entries, BoundAssumption DEF Written
  <2> QED
    BY <2>1, <1>4, BoundAssumption
<1>6. /\ split' \in Split /\ split'.patchCount = split.patchCount + 1
      /\ UNCHANGED <<split.fields, split.parameters, split.parameterCount, split.patches>>
  BY <1>3, <1>5, PatchesCounted, Entries
<1>7. Written' = Written
  BY <1>1 DEF Written
<1>8. PatchesWhole'
  BY <1>1, <1>4, <1>7, Entries DEF PatchesWhole
<1>9. PatchesKept'
  BY <1>1, <1>4, <1>5, <1>6, <1>7, Entries DEF PatchesKept
<1>a. ParametersKept'
  BY <1>1, <1>6, ParametersAside, Entries
<1> QED
  BY <1>1, <1>3, <1>6, <1>8, <1>9, <1>a, DraftedInside DEF Drafted

\* What is collected of a split that has been read as it was written.
LEMMA DefaultedIs ==
    /\ \A s \in Split :
          /\ Defaulted(s) \in Split
          /\ Defaulted(s).parameters = s.parameters
          /\ Defaulted(s).parameterCount = s.parameterCount
          /\ Defaulted(s).patches = s.patches /\ Defaulted(s).patchCount = s.patchCount
          /\ Defaulted(s).fields = IF "Section" \in Key /\ s.fields["Section"] = Null
                                   THEN [s.fields EXCEPT !["Section"] = Text] ELSE s.fields
    /\ \A d \in Draft :
          Defaulted(d).fields = IF "Section" \in Key /\ d.fields["Section"] = Null
                                THEN [d.fields EXCEPT !["Section"] = Text] ELSE d.fields
  BY DEF Defaulted, Split, Draft

\* The split that is stored is the one that was written.
LEMMA ClosedIsSame ==
    ASSUME Drafted, where = "split"
    PROVE  Same(Defaulted(split), draft) /\ Defaulted(split) \in Split
<1> DEFINE s == Defaulted(split)
<1>1. /\ s \in Split
      /\ s.parameters = split.parameters /\ s.parameterCount = split.parameterCount
      /\ s.patches = split.patches /\ s.patchCount = split.patchCount
  BY DefaultedIs, Entries
<1>2. s.fields = WrittenFields(draft)
  <2>1. split.fields = draft.fields
    BY DEF Drafted
  <2>2. split \in Split /\ draft \in Draft
    BY Entries
  <2>3. /\ s.fields = IF "Section" \in Key /\ split.fields["Section"] = Null
                      THEN [split.fields EXCEPT !["Section"] = Text] ELSE split.fields
        /\ Defaulted(draft).fields =
              IF "Section" \in Key /\ draft.fields["Section"] = Null
              THEN [draft.fields EXCEPT !["Section"] = Text] ELSE draft.fields
    BY <2>2, DefaultedIs
  <2> HIDE DEF s
  <2> QED
    BY <2>1, <2>3 DEF WrittenFields
<1> HIDE DEF s
<1>3. ParsedParameters(s) = [n \in DOMAIN draft.parameters |-> InA0(draft.parameters[n])]
  <2>1. s.parameterCount = Listed /\ Listed \in 0 .. MaxParameters
    BY <1>1, Entries DEF ParametersKept
  <2>2. DOMAIN draft.parameters = 1 .. Listed
    BY Entries DEF Listed
  <2>3. ASSUME NEW n \in 1 .. Listed
        PROVE  s.parameters[n - 1] = InA0(draft.parameters[n])
    <3>1. n - 1 \in 0 .. MaxParameters /\ n - 1 < Listed /\ (n - 1) + 1 = n
      BY <2>1, BoundAssumption
    <3> QED
      BY <3>1, <1>1, Entries DEF ParametersKept
  <2> QED
    BY <2>1, <2>2, <2>3 DEF ParsedParameters
<1>4. ParsedPatches(s) = WrittenPatches(draft)
  <2>1. CASE "patches" \notin draft.has
    <3>1. s.patchCount = 0
      BY <1>1, <2>1, Entries DEF PatchesKept
    <3>2. ParsedPatches(s) = [n \in 1 .. 0 |-> s.patches[n - 1]]
      BY <3>1 DEF ParsedPatches
    <3>3. [n \in 1 .. 0 |-> s.patches[n - 1]] = <<>>
      OBVIOUS
    <3> QED
      BY <3>2, <3>3, <2>1 DEF WrittenPatches
  <2>2. CASE "patches" \in draft.has
    <3> DEFINE x == Extent(draft.patches)
    <3>1. s.patchCount = x
      BY <1>1, <2>2, Entries DEF PatchesKept
    <3>2. x \in 0 .. MaxPatches + 1
      <4>1. Written \in 0 .. MaxPatches /\ draft.patches \in Seq(Given)
        BY Entries
      <4> QED
        BY <4>1, ExtentIs, BoundAssumption DEF Written
    <3> HIDE DEF x
    <3>3. ASSUME NEW n \in 1 .. x
          PROVE  s.patches[n - 1] = Slot(draft.patches, n)
      <4>1. n - 1 \in 0 .. MaxPatches /\ (n - 1) + 1 = n
        BY <3>2, BoundAssumption
      <4> QED
        BY <4>1, <1>1, Entries DEF PatchesKept
    <3>4. ParsedPatches(s) = [n \in 1 .. x |-> Slot(draft.patches, n)]
      BY <3>1, <3>3 DEF ParsedPatches
    <3> QED
      BY <3>4, <2>2 DEF WrittenPatches, x
  <2> QED
    BY <2>1, <2>2
<1> QED
  BY <1>1, <1>2, <1>3, <1>4 DEF Same, s

\* The end of a split: it joins those returned.
LEMMA CloseSplitKeeps ==
    ASSUME Drafted, Nested', CloseSplit
    PROVE  Drafted'
<1>1. /\ where = "split" /\ where' = "file" /\ file' = Append(file, draft)
      /\ draft' = EmptyDraft /\ EndMapping
  BY DEF CloseSplit, Reading
<1>2. /\ split' = EmptySplit /\ splits' = Append(splits, Defaulted(split))
      /\ splitCount' = splitCount + 1
  BY <1>1, StateAt, OuterEnd DEF Drafted
<1>3. Same(Defaulted(split), draft) /\ Defaulted(split) \in Split
  BY <1>1, ClosedIsSame
<1>4. /\ splits \in Seq(Split) /\ Len(splits) = splitCount
      /\ file \in Seq(Draft) /\ splitCount = Len(file) /\ draft \in Draft
      /\ \A n \in 1 .. splitCount : Same(splits[n], file[n])
  BY DEF Drafted, Nested, ParsedAsWritten
<1>5. splits' \in Seq(Split) /\ Len(splits') = splitCount' /\ splitCount' = Len(file')
  BY <1>1, <1>2, <1>3, <1>4
<1>6. ASSUME NEW n \in 1 .. splitCount'
      PROVE  Same(splits'[n], file'[n])
  <2>1. CASE n \in 1 .. splitCount
    <3>1. splits'[n] = splits[n] /\ file'[n] = file[n]
      BY <2>1, <1>1, <1>2, <1>3, <1>4
    <3> QED
      BY <2>1, <3>1, <1>4
  <2>2. CASE n = splitCount + 1
    <3>1. splits'[n] = Defaulted(split) /\ file'[n] = draft
      BY <2>2, <1>1, <1>2, <1>3, <1>4
    <3> QED
      BY <3>1, <1>3
  <2>3. splitCount \in Nat /\ n \in 1 .. splitCount + 1
    BY <1>2, <1>4
  <2>4. n \in 1 .. splitCount \/ n = splitCount + 1
    BY <2>3
  <2> QED
    BY <2>1, <2>2, <2>4
<1>7. ParsedAsWritten'
  BY <1>5, <1>6 DEF ParsedAsWritten, Same, WrittenFields, ParsedParameters,
                    ParsedPatches, WrittenPatches, Defaulted
<1>8. Listed' = 0 /\ Written' = 0 /\ draft'.has = {}
  BY <1>1, EmptyIsDraft, EmptySeq DEF Listed, Written
<1>9. ParametersKept'
  BY <1>1, <1>2, <1>8, EmptyIsSplit, BoundAssumption DEF ParametersKept
<1>a. PatchesWhole' /\ PatchesKept'
  BY <1>1, <1>2, <1>8, EmptyIsSplit, EmptyIsDraft, NoSlotFilled, BoundAssumption
     DEF PatchesWhole, PatchesKept
<1> QED
  BY <1>1, <1>2, <1>5, <1>7, <1>9, <1>a, EmptyIsDraft, EmptyIsSplit DEF Drafted

-----------------------------------------------------------------------------
(* The theorems.                                                            *)

\* Before the first event nothing is written and nothing read.
LEMMA DraftedStarts ==
    ASSUME Init
    PROVE  Drafted
<1>1. /\ where = "file" /\ draft = EmptyDraft /\ split = EmptySplit /\ splitCount = 0
      /\ splits = <<>> /\ file = <<>>
  BY DEF Init
<1>2. Listed = 0 /\ Written = 0 /\ draft.has = {}
  BY <1>1, EmptyIsDraft, EmptySeq DEF Listed, Written
<1>3. ParametersKept
  BY <1>1, <1>2, EmptyIsSplit, BoundAssumption DEF ParametersKept
<1>4. PatchesWhole /\ PatchesKept
  BY <1>1, <1>2, EmptyIsSplit, EmptyIsDraft, NoSlotFilled, BoundAssumption
     DEF PatchesWhole, PatchesKept
<1>5. ParsedAsWritten
  BY <1>1 DEF ParsedAsWritten
<1> QED
  BY <1>1, <1>3, <1>4, <1>5, NestedStarts, EmptyIsDraft, EmptyIsSplit, EmptySeq DEF Drafted

\* Whatever comes next in the file, the parser understands it.
LEMMA DraftedStep ==
    ASSUME Drafted, [Next]_vars
    PROVE  Drafted'
<1>1. Nested'
  BY NestedStep DEF Drafted
<1> USE DEF Reading
<1>2. CASE OpenSplit
  <2>1. state = "ROOT"
    BY <1>2, StateAt DEF OpenSplit, Drafted
  <2> QED
    BY <1>1, <1>2, <2>1, OpeningKeeps DEF OpenSplit, StartMapping
<1>3. CASE KeySignature
  <2>1. /\ draft'.has = draft.has \cup {"signature"}
        /\ UNCHANGED <<draft.fields, draft.parameters, draft.patches>>
    BY <1>3, SectionOpened, Entries DEF KeySignature, Sections
  <2> QED
    BY <1>1, <1>3, <2>1, OpeningKeeps DEF KeySignature, parser
<1>4. CASE OpenSignature
  <2>1. state = "SPLIT"
    BY <1>4, StateAt DEF OpenSignature, Drafted
  <2> QED
    BY <1>1, <1>4, <2>1, OpeningKeeps DEF OpenSignature, StartMapping
<1>5. CASE KeyParameters
  <2>1. /\ draft'.has = draft.has \cup {"parameters"}
        /\ UNCHANGED <<draft.fields, draft.parameters, draft.patches>>
    BY <1>5, SectionOpened, Entries DEF KeyParameters, Sections
  <2> QED
    BY <1>1, <1>5, <2>1, OpeningKeeps DEF KeyParameters, parser
<1>6. CASE OpenParameter
  BY <1>1, <1>6, OpenParameterKeeps
<1>7. CASE KeyPatches
  BY <1>1, <1>7, KeyPatchesKeeps
<1>8. CASE OpenPatch
  BY <1>1, <1>8, OpenPatchKeeps
<1>9. ASSUME NEW v \in Value, NEW key \in Key, WriteField(key, v)
      PROVE  Drafted'
  BY <1>1, <1>9, WriteFieldKeeps
<1>a. ASSUME NEW v \in Value, NEW key \in {"Type", "Name"}, WriteParameter(key, v)
      PROVE  Drafted'
  BY <1>1, <1>a, WriteParameterKeeps DEF Fits
<1>b. ASSUME NEW r \in Register, WriteParameter("Register", r)
      PROVE  Drafted'
  BY <1>1, <1>b, WriteParameterKeeps DEF Fits
<1>c. ASSUME NEW v \in PatchValue, NEW key \in {"Index", "Value"}, WritePatch(key, v)
      PROVE  Drafted'
  BY <1>1, <1>c, WritePatchKeeps
<1>d. CASE CloseParameter
  BY <1>1, <1>d, CloseParameterKeeps
<1>e. CASE ClosePatch
  BY <1>1, <1>e, ClosePatchKeeps
<1>f. CASE CloseSequence
  <2>1. CASE where = "patches"
    BY <1>1, <1>f, <2>1, ClosePatchesKeeps
  <2>2. CASE where = "parameters"
    <3>1. state = "SIGNATURE"
      BY <2>2, StateAt DEF Drafted
    <3>2. UNCHANGED parser /\ where' = "signature" /\ UNCHANGED <<draft, file>>
      BY <1>f, <2>2, <3>1 DEF CloseSequence, EndSequence
    <3> QED
      BY <1>1, <2>2, <3>2, OpeningKeeps DEF parser
  <2> QED
    BY <1>f, <2>1, <2>2 DEF CloseSequence
<1>g. CASE CloseSignature
  <2>1. state = "SIGNATURE"
    BY <1>g, StateAt DEF CloseSignature, Drafted
  <2>2. split' = split /\ UNCHANGED <<splits, splitCount>>
    BY <1>g, <2>1, InnerEnd, CountedIs DEF CloseSignature
  <2> QED
    BY <1>1, <1>g, <2>2, OpeningKeeps DEF CloseSignature
<1>h. CASE CloseSplit
  BY <1>1, <1>h, CloseSplitKeeps
<1>i. ASSUME UNCHANGED <<author, split, splitCount, splits>>
      PROVE  Drafted'
  BY <1>1, <1>i DEF Drafted, author, ParametersKept, PatchesWhole, PatchesKept, PatchSlot,
                    Listed, Written, ParsedAsWritten
<1>j. CASE Finish
  BY <1>j, <1>i DEF Finish
<1>k. CASE UNCHANGED vars \/ Stopped
  BY <1>k, <1>i DEF vars, author, Stopped
<1> QED
  BY <1>2, <1>3, <1>4, <1>5, <1>6, <1>7, <1>8, <1>9, <1>a, <1>b, <1>c, <1>d, <1>e, <1>f,
     <1>g, <1>h, <1>j, <1>k DEF Next

\* What has been read is what has been written, but for registers and late
\* indices, at every point of the file.
THEOREM DraftedAlways == Spec => []Drafted
<1>1. Drafted /\ [Next]_vars => Drafted'
  BY DraftedStep
<1> QED
  BY DraftedStarts, <1>1, PTL DEF Spec

\* Types: in particular the indices into the fixed arrays of a split pass the
\* parameters it has never, and the patches it has by at most one.
THEOREM TypeCorrect == Spec => []TypeOK
<1>1. Drafted => TypeOK
  <2> SUFFICES ASSUME Drafted PROVE TypeOK
    OBVIOUS
  <2>1. Nested /\ split \in Split /\ splitCount = Len(splits) /\ splitCount = Len(file)
    BY DEF Drafted, Nested
  <2>2. state \in States
    BY <2>1, StateAt DEF Nested, States
  <2>3. splitCount \in Nat /\ allocated \in Nat /\ status \in {"reading", "done", "failed"}
    BY <2>1, BoundAssumption DEF Nested
  <2> QED
    BY <2>1, <2>2, <2>3 DEF TypeOK, Split
<1> QED
  BY DraftedAlways, <1>1, PTL

\* The splits returned are the splits written, complete and in order, with their
\* signatures, parameters and patches, after a syntax error too; except that
\* every parameter is in A0, and the Index of a patch that gives its Value first
\* is in the slot after it.
THEOREM ParsedAsWrittenAlways == Spec => []ParsedAsWritten
<1>1. Drafted => ParsedAsWritten
  BY DEF Drafted
<1> QED
  BY DraftedAlways, <1>1, PTL
=============================================================================
