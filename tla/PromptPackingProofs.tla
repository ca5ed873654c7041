------------------------ MODULE PromptPackingProofs ------------------------
(***************************************************************************)
(* Proofs about PromptPacking, for every number of files, every size and   *)
(* every limit.                                                            *)
(***************************************************************************)
EXTENDS PromptPacking, FiniteSetTheorems, TLAPS

-----------------------------------------------------------------------------
\* Facts about the data.

\* All limits are numbers.
LEMMA Numbers ==
    /\ NumFiles \in Nat /\ Sizes \subseteq Nat /\ PromptSizes \subseteq Nat
    /\ ExtraLines \in Nat /\ Header \in Nat /\ MaxTokens \in Nat /\ Excess \in Nat
    /\ Soft \in Nat /\ Hard \in Nat /\ Hard <= Soft /\ MaxCalls \in Nat /\ MaxCalls > 0
    /\ SoftLimit \in Int /\ HardLimit \in Int /\ SoftLimit <= HardLimit
    /\ Overhead \in Nat /\ Overhead <= Header
  BY PromptPackingAssumption DEF SoftLimit, HardLimit, Overhead

\* What a sequence is after one more element.
LEMMA AppendFacts ==
    ASSUME NEW S, NEW s \in Seq(S), NEW e \in S
    PROVE  /\ Append(s, e) \in Seq(S) /\ Len(Append(s, e)) = Len(s) + 1
           /\ \A k \in 1..Len(s) : Append(s, e)[k] = s[k]
           /\ Append(s, e)[Len(s) + 1] = e
           /\ Len(s) \in Nat
  OBVIOUS

LEMMA TokensType ==
    ASSUME TypeOK, NEW f \in Files
    PROVE  Tokens(f) \in Nat
  BY Numbers DEF TypeOK, Tokens

\* A patch that is packed into one of several prompts has a size that fits into
\* a prompt of its own.
LEMMA MultiSizesFit ==
    ASSUME TypeOK, NEW f \in Files, NEW n \in MultiSizes(f)
    PROVE  n \in Nat /\ (n # 0 => prompt + n <= SoftLimit /\ InFileDict(f))
<1>1. Tokens(f) + Overhead \in Nat /\ prompt \in Nat
  BY Numbers, TokensType DEF TypeOK
<1> QED
  BY <1>1, Numbers DEF MultiSizes

-----------------------------------------------------------------------------
\* Types.

LEMMA TypeInit == Init => TypeOK
  BY Numbers DEF Init, TypeOK, Files

\* The variables one by one.
Typed ==
    /\ total \in Nat /\ at \in {"extend", "pack", "multi", "lists", "done"}
    /\ i \in 1..NumFiles + 1
    /\ left \subseteq Files /\ skipped \subseteq Files
    /\ chunk \subseteq Files /\ listed \subseteq Files
    /\ chunks \in Seq(SUBSET Files) /\ totals \in Seq(Nat)
    /\ passes \in 0..MaxCalls

Call ==
    /\ mode \in Modes /\ policy \in Policies /\ prompt \in PromptSizes
    /\ numbered \in BOOLEAN
    /\ file \in [Files -> [kind : Kinds, size : Sizes]]

LEMMA TypeParts == TypeOK <=> Call /\ Typed
  BY DEF TypeOK, Typed, Call

LEMMA FileType ==
    ASSUME Call, NEW f \in Files
    PROVE  file[f].size \in Nat
<1>1. file[f] \in [kind : Kinds, size : Sizes]
  BY DEF Call
<1> QED
  BY <1>1, Numbers

\* A prompt is closed.
LEMMA Close ==
    ASSUME Typed, chunks' = Append(chunks, chunk), totals' = Append(totals, total)
    PROVE  chunks' \in Seq(SUBSET Files) /\ totals' \in Seq(Nat)
  BY DEF Typed

\* The call itself never changes.
LEMMA CallStays == [Next]_vars => UNCHANGED call
  BY DEF Next, Extend, EndExtend, Pack, EndPass, Lists, Multi, EndMulti, vars, call

\* A list that was clipped to a room is of those files and exceeds the room by at
\* most what a clip may.
LEMMA ClippedType ==
    ASSUME NEW S, S \subseteq Files, NEW room \in Int, NEW l \in Clipped(S, room)
    PROVE  /\ l.names \subseteq Files /\ Cost(l) \in Nat
           /\ Cost(l) = 0 \/ Cost(l) <= room + Excess + 2
<1>1. IsFiniteSet(Files)
  BY Numbers, FS_Interval DEF Files
<1>2. Cardinality(S) \in Nat
  BY <1>1, FS_Subset, FS_CardinalityType
<1>3. /\ Whole(S).names = S /\ Whole(S).tokens \in Nat
      /\ S = {} => Whole(S).tokens = 0
  BY <1>2 DEF Whole, Nothing
<1>4. CASE l = Whole(S) /\ (S = {} \/ Whole(S).tokens <= room)
  BY <1>3, <1>4, Numbers DEF Cost
<1>5. CASE l = Nothing
  BY <1>5 DEF Cost, Nothing
<1>6. CASE l \in [names : SUBSET S, tokens : 1..room + Excess]
  BY <1>6, Numbers DEF Cost
<1> QED
  BY <1>4, <1>5, <1>6 DEF Clipped

\* What becomes of a file of get_pr_multi_diffs whose patch has size n: passed
\* over, put into the prompt being filled, or put into the next one.
PassedOver(n) ==
    /\ n = 0
    /\ i' = i + 1
    /\ UNCHANGED <<at, total, chunk, chunks, totals>>

Joins(n) ==
    /\ n # 0 /\ total + n <= SoftLimit
    /\ i' = i + 1
    /\ chunk' = chunk \cup {i}
    /\ total' = total + n
    /\ UNCHANGED <<at, chunks, totals>>

Closes(n) ==
    /\ n # 0 /\ total + n > SoftLimit
    /\ chunks' = Append(chunks, chunk)
    /\ totals' = Append(totals, total)
    /\ \/ /\ StopMulti
          /\ at' = "done" /\ i' = NumFiles + 1
          /\ chunk' = {} /\ total' = prompt
       \/ /\ ~StopMulti
          /\ i' = i + 1
          /\ chunk' = {i} /\ total' = prompt + n
          /\ UNCHANGED at

LEMMA MultiCases ==
    Multi => \E n \in MultiSizes(i) : PassedOver(n) \/ Joins(n) \/ Closes(n)
  BY DEF Multi, Opened, PassedOver, Joins, Closes

\* Passes are only begun while there are calls left, and the lists belong to
\* the one prompt there is.
Room ==
    /\ at = "pack" => passes < MaxCalls
    /\ at = "lists" => Len(totals) = 1

LEMMA TypeNext == TypeOK /\ Room /\ [Next]_vars => TypeOK'
<1> SUFFICES ASSUME Typed, Call, Room, [Next]_vars PROVE Typed'
  BY TypeParts, CallStays DEF Call, call, Typed, TypeOK
<1>0. /\ NumFiles + 1 \in 1..NumFiles + 1 /\ 1 \in 1..NumFiles + 1
      /\ prompt \in Nat /\ Files = 1..NumFiles /\ NumFiles \in Nat
  BY Numbers DEF Call, Files
<1>a. ASSUME i <= NumFiles
      PROVE  i \in Files /\ i + 1 \in 1..NumFiles + 1
  BY <1>0, <1>a DEF Typed
<1>1. CASE Extend
  <2>1. i \in Files /\ i + 1 \in 1..NumFiles + 1
    BY <1>1, <1>a DEF Extend
  <2>2. file[i].size + ExtraLines \in Nat
    BY <2>1, FileType, Numbers
  <2>3. total + file[i].size + ExtraLines \in Nat
    BY <2>1, FileType, Numbers DEF Typed
  <2> QED
    BY <1>1, <2>1, <2>3 DEF Extend, Typed
<1>2. CASE EndExtend
  <2>1. <<chunk>> \in Seq(SUBSET Files) /\ <<total>> \in Seq(Nat)
    BY DEF Typed
  <2>2. chunks' \in {chunks, <<>>, <<chunk>>} /\ totals' \in {totals, <<>>, <<total>>}
    BY <1>2 DEF EndExtend
  <2>3. chunks' \in Seq(SUBSET Files) /\ totals' \in Seq(Nat)
    <3>1. <<>> \in Seq(SUBSET Files) /\ <<>> \in Seq(Nat)
      OBVIOUS
    <3> QED
      BY <2>1, <2>2, <3>1 DEF Typed
  <2> QED
    BY <1>0, <1>2, <2>3 DEF EndExtend, Typed
<1>3. CASE Pack
  <2>1. i \in Files /\ i + 1 \in 1..NumFiles + 1
    BY <1>3, <1>a DEF Pack
  <2>2. total + Tokens(i) + Overhead \in Nat
    BY <2>1, TokensType, TypeParts, Numbers DEF Typed
  <2> QED
    BY <1>3, <2>1, <2>2 DEF Pack, Typed
<1>4. CASE EndPass
  <2>1. chunks' \in Seq(SUBSET Files) /\ totals' \in Seq(Nat)
    BY <1>4, Close DEF EndPass, Typed
  <2>2. passes' \in 0..MaxCalls
    BY <1>4, Numbers DEF EndPass, Typed, Room
  <2> QED
    BY <1>0, <1>4, <2>1, <2>2 DEF EndPass, Typed, Remaining, FreshTotal
<1>5. CASE Lists
  <2>1. PICK added \in Clipped(Unpacked({"added"}), HardLimit - totals[1]) :
        \E modified \in Clipped(Unpacked({"modified", "emptied"}), RoomAfter(added)) :
            /\ listed' = added.names \cup modified.names
            /\ total' = totals[1] + Cost(added) + Cost(modified)
    BY <1>5 DEF Lists
  <2>a. totals \in Seq(Nat) /\ Len(totals) = 1
    BY <1>5 DEF Lists, Typed, Room
  <2>b. totals[1] \in Nat
    BY <2>a
  <2>2. totals[1] \in Nat /\ HardLimit - totals[1] \in Int
    BY <2>b, Numbers
  <2>3. \A K : Unpacked(K) \subseteq Files
    BY DEF Unpacked
  <2>4. added.names \subseteq Files /\ Cost(added) \in Nat
    BY <2>1, <2>2, <2>3, ClippedType
  <2>5. RoomAfter(added) \in Int
    BY <2>2, <2>4, Numbers DEF RoomAfter
  <2>6. PICK modified \in Clipped(Unpacked({"modified", "emptied"}), RoomAfter(added)) :
            /\ listed' = added.names \cup modified.names
            /\ total' = totals[1] + Cost(added) + Cost(modified)
    BY <2>1
  <2>7. modified.names \subseteq Files /\ Cost(modified) \in Nat
    BY <2>3, <2>5, <2>6, ClippedType
  <2>8. listed' \subseteq Files /\ total' \in Nat
    BY <2>2, <2>4, <2>6, <2>7
  <2> QED
    BY <1>5, <2>8 DEF Lists, Typed
<1>6. CASE Multi
  <2>1. i \in Files /\ i + 1 \in 1..NumFiles + 1
    BY <1>6, <1>a DEF Multi
  <2>2. \A n \in MultiSizes(i) : n \in Nat
    BY <2>1, MultiSizesFit, TypeParts
  <2>3. PICK n \in MultiSizes(i) : PassedOver(n) \/ Joins(n) \/ Closes(n)
    BY <1>6, MultiCases
  <2>4. chunks' \in Seq(SUBSET Files) /\ totals' \in Seq(Nat)
    BY <2>3, Close DEF Typed, PassedOver, Joins, Closes
  <2>6. total + n \in Nat /\ prompt + n \in Nat
    BY <1>0, <2>2 DEF Typed
  <2>7. UNCHANGED <<left, skipped, passes, listed>>
    BY <1>6 DEF Multi
  <2>8. /\ i' \in 1..NumFiles + 1 /\ total' \in Nat /\ at' \in {at, "done"}
        /\ chunk' \in {chunk, {}, {i}, chunk \cup {i}}
    BY <1>0, <2>1, <2>3, <2>6 DEF Typed, PassedOver, Joins, Closes
  <2> QED
    BY <2>1, <2>4, <2>7, <2>8 DEF Typed
<1>7. CASE EndMulti
  BY <1>7, Close DEF EndMulti, Typed
<1>8. CASE UNCHANGED vars
  BY <1>8 DEF vars, Typed
<1> QED
  BY <1>1, <1>2, <1>3, <1>4, <1>5, <1>6, <1>7, <1>8 DEF Next

-----------------------------------------------------------------------------
\* The shape of a call: what is known of the prompts in each of its loops.

\* Every finished prompt has its count.
Counted == Len(totals) = Len(chunks)

\* While the files are extended there is one prompt, which holds every patch so far.
Extending ==
    at = "extend" =>
        /\ chunks = <<>> /\ passes = 0 /\ left = Files /\ skipped = {}
        /\ chunk \subseteq 1..i - 1
        /\ \A f \in 1..i - 1 : HasPatch(f) => f \in chunk

\* A pass divides the files left to it into packed and skipped ones, and none of
\* them is in a finished prompt.
Packing ==
    at = "pack" =>
        /\ mode # "multi" /\ passes < MaxCalls
        /\ Len(chunks) <= passes /\ (passes > 0 => Len(chunks) > 0)
        /\ skipped \subseteq left \cap (1..i - 1) /\ chunk \subseteq left \cap (1..i - 1)
        /\ skipped \cap chunk = {}
        /\ chunk = {} => total = prompt
        /\ \A k \in 1..Len(chunks) : chunks[k] \cap left = {}

\* In get_pr_multi_diffs the prompts hold different files of those before i, and
\* one more prompt may be closed.
Gathering ==
    at = "multi" =>
        /\ mode = "multi" /\ Len(chunks) < MaxCalls
        /\ chunk \subseteq 1..i - 1
        /\ chunk = {} => total = prompt
        /\ \A k \in 1..Len(chunks) : chunks[k] \subseteq (1..i - 1) \ chunk

\* The lists go below the only prompt.
Listing == at = "lists" => mode # "multi" /\ Len(chunks) = 1

Shape == Counted /\ Extending /\ Packing /\ Gathering /\ Listing /\ CallsBounded

\* A prompt is closed: the finished ones stay, and it is the last of them.
LEMMA Closed ==
    ASSUME Typed, Counted, chunks' = Append(chunks, chunk), totals' = Append(totals, total)
    PROVE  /\ Len(chunks) \in Nat /\ Len(chunks') = Len(chunks) + 1 /\ Counted'
           /\ \A k \in 1..Len(chunks) : chunks'[k] = chunks[k] /\ totals'[k] = totals[k]
           /\ chunks'[Len(chunks) + 1] = chunk /\ totals'[Len(chunks) + 1] = total
<1>1. /\ chunks \in Seq(SUBSET Files) /\ chunk \in SUBSET Files
      /\ totals \in Seq(Nat) /\ total \in Nat
  BY DEF Typed
<1>2. /\ Len(chunks') = Len(chunks) + 1 /\ Len(chunks) \in Nat
      /\ \A k \in 1..Len(chunks) : chunks'[k] = chunks[k]
      /\ chunks'[Len(chunks) + 1] = chunk
  BY <1>1, AppendFacts
<1>3. /\ Len(totals') = Len(totals) + 1
      /\ \A k \in 1..Len(totals) : totals'[k] = totals[k]
      /\ totals'[Len(totals) + 1] = total
  BY <1>1, AppendFacts
<1> QED
  BY <1>2, <1>3 DEF Counted

\* Closing a prompt keeps the calls bounded when there was room for one, the
\* prompt has files or is the first, and they are in no other.
LEMMA ClosedBounded ==
    ASSUME Typed, Counted, CallsBounded, Len(chunks) < MaxCalls,
           chunks' = Append(chunks, chunk), totals' = Append(totals, total),
           Len(chunks) = 0 \/ chunk # {},
           \A k \in 1..Len(chunks) : chunks[k] \cap chunk = {}
    PROVE  CallsBounded'
<1> DEFINE n == Len(chunks)
<1>1. /\ n \in Nat /\ Len(chunks') = n + 1
      /\ \A k \in 1..n : chunks'[k] = chunks[k]
      /\ chunks'[n + 1] = chunk
  BY Closed
<1>2. Len(chunks') <= MaxCalls
  BY <1>1, Numbers
<1>3. ASSUME NEW k \in 2..Len(chunks')
      PROVE  chunks'[k] # {}
  BY <1>1, <1>3 DEF CallsBounded
<1>4. ASSUME NEW j \in 1..Len(chunks'), NEW k \in 1..Len(chunks'), j # k
      PROVE  chunks'[j] \cap chunks'[k] = {}
  <2>1. (j \in 1..n \/ j = n + 1) /\ (k \in 1..n \/ k = n + 1)
    BY <1>1, <1>4
  <2>2. CASE j \in 1..n /\ k \in 1..n
    BY <1>1, <1>4, <2>2 DEF CallsBounded
  <2>3. CASE j = n + 1 /\ k \in 1..n
    BY <1>1, <2>3
  <2>4. CASE j \in 1..n /\ k = n + 1
    BY <1>1, <2>4
  <2> QED
    BY <1>4, <2>1, <2>2, <2>3, <2>4
<1> QED
  BY <1>2, <1>3, <1>4 DEF CallsBounded

LEMMA ShapeInit == Init => Shape
  BY Numbers DEF Init, Shape, Counted, Extending, Packing, Gathering, Listing, CallsBounded

\* The numbers every action compares.
LEMMA Ranges ==
    ASSUME TypeOK
    PROVE  /\ i \in Nat /\ NumFiles \in Nat /\ passes \in Nat /\ total \in Nat
           /\ prompt \in Nat /\ Len(chunks) \in Nat /\ MaxCalls \in Nat /\ MaxCalls > 0
           /\ i >= 1 /\ Files = 1..NumFiles
  BY Numbers DEF TypeOK, Files

LEMMA ShapeNext == TypeOK /\ Shape /\ [Next]_vars => Shape'
<1> SUFFICES ASSUME TypeOK, Shape, [Next]_vars PROVE Shape'
  OBVIOUS
<1> USE DEF Shape
<1>0. Typed /\ Call /\ UNCHANGED call
  BY TypeParts, CallStays
<1>a. UNCHANGED <<chunks, totals>> => Counted' /\ CallsBounded'
  BY DEF Counted, CallsBounded
<1>1. CASE Extend
  <2>1. /\ at = "extend" /\ at' = at /\ i' = i + 1 /\ chunk' \in {chunk, chunk \cup {i}}
        /\ HasPatch(i) => chunk' = chunk \cup {i}
        /\ UNCHANGED <<chunks, totals, passes, left, skipped, file>>
    BY <1>0, <1>1 DEF Extend, call
  <2>2. Extending'
    BY <2>1, Ranges DEF Extending, HasPatch
  <2> QED
    BY <1>a, <2>1, <2>2 DEF Packing, Gathering, Listing
<1>2. CASE EndExtend
  <2>1. chunks = <<>> /\ totals = <<>> /\ passes = 0
    <3>1. chunks = <<>> /\ passes = 0 /\ Len(totals) = 0 /\ totals \in Seq(Nat)
      BY <1>0, <1>2 DEF EndExtend, Extending, Counted, Typed
    <3> QED
      BY <3>1
  <2>2. /\ chunks' \in {<<>>, <<chunk>>} /\ Counted'
        /\ at' \in {"pack", "multi"} => chunks' = <<>>
    BY <1>2, <2>1 DEF EndExtend, Counted
  <2>3. CallsBounded'
    <3>1. CASE chunks' = <<>>
      BY <3>1, Numbers DEF CallsBounded
    <3>2. CASE chunks' = <<chunk>>
      <4>1. Len(chunks') = 1
        BY <3>2
      <4>2. 1 <= MaxCalls
        BY Numbers
      <4> QED
        BY <4>1, <4>2 DEF CallsBounded
    <3> QED
      BY <2>2, <3>1, <3>2
  <2>4. /\ at' \in {"pack", "multi", "done"} /\ UNCHANGED <<mode, prompt, skipped, passes>>
        /\ at' = "pack" => mode # "multi" /\ skipped = {}
        /\ at' = "multi" => mode = "multi"
        /\ at' \in {"pack", "multi"} => total' = prompt /\ chunk' = {}
    BY <1>0, <1>2 DEF EndExtend, call, Extending
  <2> QED
    BY <2>1, <2>2, <2>3, <2>4, Numbers DEF Extending, Packing, Gathering, Listing
<1>3. CASE Pack
  <2>1. /\ at = "pack" /\ at' = at /\ i' = i + 1
        /\ UNCHANGED <<mode, prompt, chunks, totals, passes, left>>
    BY <1>0, <1>3 DEF Pack, call
  <2>2. \/ UNCHANGED <<total, chunk, skipped>>
        \/ i \in left /\ skipped' = skipped \cup {i} /\ UNCHANGED <<total, chunk>>
        \/ i \in left /\ chunk' = chunk \cup {i} /\ UNCHANGED skipped
    BY <1>3 DEF Pack
  <2>3. Packing'
    BY <2>1, <2>2, Ranges DEF Packing
  <2> QED
    BY <1>a, <2>1, <2>3 DEF Extending, Gathering, Listing
<1>4. CASE EndPass
  <2>0. /\ at = "pack" /\ i = NumFiles + 1 /\ passes' = passes + 1 /\ left' = skipped
        /\ mode # "multi" /\ UNCHANGED <<mode, prompt>>
    BY <1>0, <1>4 DEF EndPass, Remaining, Packing, call
  <2>a. ASSUME at' = "pack"
        PROVE  passes + 1 < MaxCalls /\ i' = 1 /\ total' = prompt /\ chunk' = {} /\ skipped' = {}
    BY <1>4, <2>a DEF EndPass, MorePasses, FreshTotal
  <2>1. CASE passes = 0 \/ chunk # {}
    <3>1. chunks' = Append(chunks, chunk) /\ totals' = Append(totals, total)
      BY <1>4, <2>1 DEF EndPass
    <3>2. /\ Len(chunks) < MaxCalls /\ (Len(chunks) = 0 \/ chunk # {})
          /\ \A k \in 1..Len(chunks) : chunks[k] \cap chunk = {}
      BY <2>0, <2>1, Ranges DEF Packing
    <3>3. CallsBounded'
      BY <1>0, <3>1, <3>2, ClosedBounded
    <3>4. /\ Len(chunks') = Len(chunks) + 1 /\ Counted'
          /\ \A k \in 1..Len(chunks) : chunks'[k] = chunks[k]
          /\ chunks'[Len(chunks) + 1] = chunk
      BY <1>0, <3>1, Closed
    <3>5. \A k \in 1..Len(chunks') : chunks'[k] \cap left' = {}
      <4> SUFFICES ASSUME NEW k \in 1..Len(chunks') PROVE chunks'[k] \cap left' = {}
        OBVIOUS
      <4>1. k \in 1..Len(chunks) \/ k = Len(chunks) + 1
        BY <3>4, Ranges
      <4>2. left' \cap chunk = {} /\ left' \subseteq left
        BY <2>0 DEF Packing
      <4> QED
        BY <2>0, <3>4, <4>1, <4>2 DEF Packing
    <3>6. Len(chunks') <= passes' /\ Len(chunks') > 0
      BY <2>0, <3>4, Ranges DEF Packing
    <3>7. Packing'
      BY <2>0, <2>a, <3>5, <3>6, Ranges DEF Packing
    <3>8. Listing'
      BY <1>4, <2>0, <3>4, Ranges DEF EndPass, Listing
    <3> QED
      BY <1>4, <3>3, <3>4, <3>7, <3>8 DEF EndPass, Extending, Gathering
  <2>2. CASE ~(passes = 0 \/ chunk # {})
    <3>1. UNCHANGED <<chunks, totals>> /\ passes # 0
      BY <1>4, <2>2 DEF EndPass
    <3>2. Len(chunks') <= passes' /\ Len(chunks') > 0
      BY <2>0, <3>1, Ranges DEF Packing
    <3>3. \A k \in 1..Len(chunks') : chunks'[k] \cap left' = {}
      BY <2>0, <3>1 DEF Packing
    <3>4. Packing'
      BY <2>0, <2>a, <3>2, <3>3, Ranges DEF Packing
    <3>5. Listing'
      <4>1. at' = "lists" => ~(Len(chunks') > 1)
        BY <1>4 DEF EndPass
      <4>2. Len(chunks') \in Nat
        BY <3>1, Ranges
      <4>3. at' = "lists" => Len(chunks') = 1
        <5> DEFINE n == Len(chunks')
        <5>1. n \in Nat /\ n > 0 /\ (at' = "lists" => ~(n > 1))
          BY <3>2, <4>1, <4>2
        <5> HIDE DEF n
        <5>2. at' = "lists" => n = 1
          BY <5>1
        <5> QED
          BY <5>2 DEF n
      <4> QED
        BY <2>0, <4>3 DEF Listing
    <3> QED
      BY <1>4, <1>a, <3>1, <3>4, <3>5 DEF EndPass, Extending, Gathering
  <2> QED
    BY <2>1, <2>2
<1>5. CASE Lists
  BY <1>a, <1>5 DEF Lists, Extending, Packing, Gathering, Listing
<1>6. CASE Multi
  <2>0. /\ at = "multi" /\ i \in Files /\ mode = "multi"
        /\ UNCHANGED <<mode, prompt, left, skipped, passes>>
    BY <1>0, <1>6, Ranges DEF Multi, Gathering, call
  <2>1. PICK n \in MultiSizes(i) : PassedOver(n) \/ Joins(n) \/ Closes(n)
    BY <1>6, MultiCases
  <2>2. n \in Nat /\ (n # 0 => prompt + n <= SoftLimit)
    BY <2>0, MultiSizesFit
  <2>3. CASE PassedOver(n)
    BY <1>a, <2>0, <2>3, Ranges DEF PassedOver, Extending, Packing, Gathering, Listing
  <2>4. CASE Joins(n)
    <3>1. Gathering'
      BY <2>0, <2>4, Ranges DEF Joins, Gathering
    <3> QED
      BY <1>a, <2>0, <2>4, <3>1 DEF Joins, Extending, Packing, Listing
  <2>5. CASE Closes(n)
    <3>1. chunk # {}
      BY <2>0, <2>2, <2>5, Numbers, Ranges DEF Closes, Gathering
    <3>2. /\ Len(chunks) < MaxCalls
          /\ \A k \in 1..Len(chunks) : chunks[k] \cap chunk = {}
      BY <2>0 DEF Gathering
    <3>3. CallsBounded'
      BY <1>0, <2>5, <3>1, <3>2, ClosedBounded DEF Closes
    <3>4. /\ Len(chunks') = Len(chunks) + 1 /\ Counted'
          /\ \A k \in 1..Len(chunks) : chunks'[k] = chunks[k]
          /\ chunks'[Len(chunks) + 1] = chunk
      BY <1>0, <2>5, Closed DEF Closes
    <3>5. at' = "multi" => Gathering'
      <4>1. CASE at' = "multi"
        <5>1. ~StopMulti /\ i' = i + 1 /\ chunk' = {i}
          BY <2>5, <4>1 DEF Closes
        <5>2. Len(chunks') < MaxCalls
          BY <3>2, <3>4, <5>1, Ranges DEF StopMulti
        <5>3. ASSUME NEW k \in 1..Len(chunks')
              PROVE  chunks'[k] \subseteq (1..i' - 1) \ chunk'
          <6>1. k \in 1..Len(chunks) \/ k = Len(chunks) + 1
            BY <3>4, Ranges
          <6>2. chunks'[k] \subseteq 1..i - 1
            BY <2>0, <3>4, <6>1 DEF Gathering
          <6> QED
            BY <5>1, <6>2, Ranges
        <5> QED
          BY <2>0, <5>1, <5>2, <5>3, Ranges DEF Gathering
      <4> QED
        BY <4>1
    <3>6. at' \in {"multi", "done"}
      BY <2>0, <2>5 DEF Closes
    <3> QED
      BY <3>3, <3>4, <3>5, <3>6 DEF Extending, Packing, Gathering, Listing
  <2> QED
    BY <2>1, <2>3, <2>4, <2>5
<1>7. CASE EndMulti
  <2>1. at = "multi" /\ at' = "done"
    BY <1>7 DEF EndMulti
  <2>2. CASE chunk # {}
    <3>1. chunks' = Append(chunks, chunk) /\ totals' = Append(totals, total)
      BY <1>7, <2>2 DEF EndMulti
    <3>2. /\ Len(chunks) < MaxCalls
          /\ \A k \in 1..Len(chunks) : chunks[k] \cap chunk = {}
      BY <2>1 DEF Gathering
    <3>3. CallsBounded'
      BY <1>0, <2>2, <3>1, <3>2, ClosedBounded
    <3>4. Counted'
      BY <1>0, <3>1, Closed
    <3> QED
      BY <2>1, <3>3, <3>4 DEF Extending, Packing, Gathering, Listing
  <2>3. CASE chunk = {}
    BY <1>7, <1>a, <2>1, <2>3 DEF EndMulti, Extending, Packing, Gathering, Listing
  <2> QED
    BY <2>2, <2>3
<1>8. CASE UNCHANGED vars
  BY <1>8 DEF vars, Counted, Extending, Packing, Gathering, Listing, CallsBounded, HasPatch
<1> QED
  BY <1>1, <1>2, <1>3, <1>4, <1>5, <1>6, <1>7, <1>8 DEF Next

LEMMA RoomHolds == TypeOK /\ Shape => Room
<1> SUFFICES ASSUME TypeOK, Shape PROVE Room
  OBVIOUS
<1> QED
  BY DEF Shape, Room, Packing, Listing, Counted

LEMMA ShapeInvariant == Spec => [](TypeOK /\ Shape)
<1>1. Init => TypeOK /\ Shape
  BY TypeInit, ShapeInit
<1>2. TypeOK /\ Shape /\ [Next]_vars => TypeOK' /\ Shape'
  BY TypeNext, RoomHolds, ShapeNext
<1> QED
  BY <1>1, <1>2, PTL DEF Spec

\* The state of a call is always one the code can be in; in particular no pass
\* is begun that the limit of calls does not allow.
THEOREM TypeCorrectness == Spec => []TypeOK
<1>1. TypeOK /\ Shape => TypeOK
  OBVIOUS
<1> QED
  BY <1>1, ShapeInvariant, PTL

\* No call sends more prompts than the limit, an empty one after the first, or
\* a file twice, however many files there are and whatever their sizes.
THEOREM CallsCorrectness == Spec => []CallsBounded
<1>1. TypeOK /\ Shape => CallsBounded
  BY DEF Shape
<1> QED
  BY <1>1, ShapeInvariant, PTL

-----------------------------------------------------------------------------
\* The files that are left.

\* The file would not fit into a prompt of its own.
TooLarge(f) == prompt + Tokens(f) > SoftLimit

\* A pass that packs nothing skips only such files, and once there was such a pass
\* all files left are of this kind.
Leftovers ==
    /\ at = "pack" =>
         /\ chunk = {} => \A f \in skipped : TooLarge(f)
         /\ Len(chunks) < passes => \A f \in left : TooLarge(f)
    /\ at \in {"lists", "done"} /\ mode = "large" /\ passes > 0 /\ Len(chunks) < MaxCalls =>
         \A f \in left : TooLarge(f)

LEMMA LeftoversInit == Init => Leftovers
  BY DEF Init, Leftovers

LEMMA LeftoversNext == TypeOK /\ Shape /\ Leftovers /\ [Next]_vars => Leftovers'
<1> SUFFICES ASSUME TypeOK, Shape, Leftovers, [Next]_vars PROVE Leftovers'
  OBVIOUS
<1>0. /\ UNCHANGED <<mode, prompt>>
      /\ \A f : TooLarge(f)' <=> TooLarge(f)
  BY CallStays DEF call, TooLarge, Tokens, SoftLimit
<1>1. CASE Extend
  BY <1>1 DEF Extend, Leftovers
<1>2. CASE EndExtend
  <2>1. passes = 0 /\ passes' = 0 /\ skipped = {} /\ skipped' = {}
    BY <1>2 DEF EndExtend, Shape, Extending
  <2>2. at' = "pack" => Len(chunks') = 0
    BY <1>2 DEF EndExtend, Shape, Extending
  <2> QED
    BY <2>1, <2>2 DEF Leftovers
<1>3. CASE Pack
  <2>1. at = "pack" /\ at' = at /\ UNCHANGED <<chunks, passes, left>>
    BY <1>3 DEF Pack
  <2>2. ASSUME chunk' = {}, NEW f \in skipped'
        PROVE  TooLarge(f)
    <3>1. CASE f \in skipped
      <4>1. chunk = {}
        BY <1>3, <2>2 DEF Pack
      <4> QED
        BY <2>1, <3>1, <4>1 DEF Leftovers
    <3>2. CASE f \notin skipped
      <4>1. f = i /\ ~Fits(i) /\ chunk = {} /\ i \in Files
        BY <1>3, <2>2, <3>2, Ranges DEF Pack
      <4>2. total = prompt
        BY <2>1, <4>1 DEF Shape, Packing
      <4>3. Tokens(i) \in Nat
        BY <4>1, TokensType
      <4> QED
        BY <4>1, <4>2, <4>3, Ranges, Numbers DEF Fits, TooLarge
    <3> QED
      BY <3>1, <3>2
  <2> QED
    BY <1>0, <2>1, <2>2 DEF Leftovers
<1>4. CASE EndPass
  <2>1. at = "pack" /\ passes' = passes + 1 /\ left' = skipped
    BY <1>4 DEF EndPass, Remaining
  <2>2. ASSUME Len(chunks') < passes', NEW f \in left'
        PROVE  TooLarge(f)
    <3>1. CASE passes = 0 \/ chunk # {}
      <4>1. Len(chunks') = Len(chunks) + 1
        BY <1>4, <3>1, Closed, TypeParts DEF EndPass, Shape
      <4>2. Len(chunks) < passes /\ f \in left
        BY <2>1, <2>2, <4>1, Ranges DEF Shape, Packing
      <4> QED
        BY <2>1, <4>2 DEF Leftovers
    <3>2. CASE ~(passes = 0 \/ chunk # {})
      BY <2>1, <2>2, <3>2 DEF Leftovers
    <3> QED
      BY <3>1, <3>2
  <2>3. ASSUME at' = "pack" PROVE chunk' = {} /\ skipped' = {}
    BY <1>4, <2>3 DEF EndPass
  <2>4. ASSUME at' # "pack", mode = "large", left' # {}
        PROVE  MaxCalls <= passes'
    BY <1>4, <2>1, <2>4, Ranges DEF EndPass, MorePasses, Remaining
  <2>5. Len(chunks') < MaxCalls /\ MaxCalls <= passes' => Len(chunks') < passes'
    <3>1. CASE passes = 0 \/ chunk # {}
      <4>1. Len(chunks') = Len(chunks) + 1
        BY <1>4, <3>1, Closed, TypeParts DEF EndPass, Shape
      <4> QED
        BY <2>1, <4>1, Ranges
    <3>2. CASE ~(passes = 0 \/ chunk # {})
      <4>1. Len(chunks') = Len(chunks)
        BY <1>4, <3>2 DEF EndPass
      <4> QED
        BY <2>1, <4>1, Ranges
    <3> QED
      BY <3>1, <3>2
  <2> QED
    BY <1>0, <2>2, <2>3, <2>4, <2>5 DEF Leftovers
<1>5. CASE Lists
  BY <1>0, <1>5 DEF Lists, Leftovers
<1>6. CASE Multi
  <2>1. mode' = "multi" /\ at' # "pack"
    BY <1>0, <1>6, MultiCases DEF Multi, Shape, Gathering, PassedOver, Joins, Closes
  <2> QED
    BY <2>1 DEF Leftovers
<1>7. CASE EndMulti
  BY <1>0, <1>7 DEF EndMulti, Leftovers, Shape, Gathering
<1>8. CASE UNCHANGED vars
  BY <1>0, <1>8 DEF vars, Leftovers
<1> QED
  BY <1>1, <1>2, <1>3, <1>4, <1>5, <1>6, <1>7, <1>8 DEF Next

\* The passes of get_pr_diff_multiple_patchs give up on no file that fits into a
\* prompt of its own while a call is left.
THEOREM LeftoverCorrectness == Spec => []LeftoverTooLarge
<1>1. Init => Leftovers
  BY LeftoversInit
<1>2. TypeOK /\ Shape /\ Leftovers /\ [Next]_vars => Leftovers'
  BY LeftoversNext
<1>3. Leftovers => LeftoverTooLarge
  BY DEF Leftovers, LeftoverTooLarge, TooLarge
<1> QED
  BY <1>1, <1>2, <1>3, ShapeInvariant, PTL DEF Spec

-----------------------------------------------------------------------------
\* The budget.

\* The header of a file is no longer than what lies between the two thresholds
\* and what the lists may go over.
ShortHeader == Header <= Soft - Hard + Excess + 2

\* Every count stays within the limit of its loop.
Limited ==
    prompt <= SoftLimit =>
        /\ \A k \in 1..Len(totals) : totals[k] <= SoftLimit + Header
        /\ at \in {"pack", "multi"} => total <= SoftLimit + Header
        /\ at = "done" /\ mode # "multi" => total <= HardLimit + Excess + 2

\* A prompt that is closed within the limit keeps the counts within it.
LEMMA ClosedLimited ==
    ASSUME TypeOK, Shape, chunks' = Append(chunks, chunk), totals' = Append(totals, total),
           \A k \in 1..Len(totals) : totals[k] <= SoftLimit + Header,
           total <= SoftLimit + Header
    PROVE  \A k \in 1..Len(totals') : totals'[k] <= SoftLimit + Header
<1>1. /\ Len(chunks) \in Nat /\ Len(totals) = Len(chunks) /\ Len(totals') = Len(totals) + 1
      /\ \A k \in 1..Len(totals) : totals'[k] = totals[k]
      /\ totals'[Len(totals) + 1] = total
  BY Closed, TypeParts DEF Shape, Counted
<1> SUFFICES ASSUME NEW k \in 1..Len(totals') PROVE totals'[k] <= SoftLimit + Header
  OBVIOUS
<1>2. k \in 1..Len(totals) \/ k = Len(totals) + 1
  BY <1>1
<1> QED
  BY <1>1, <1>2

LEMMA LimitedInit == Init => Limited
  BY DEF Init, Limited

LEMMA LimitedNext ==
    ASSUME ShortHeader, TypeOK, Shape, Limited, [Next]_vars
    PROVE  Limited'
<1>0. UNCHANGED <<mode, prompt>>
  BY CallStays DEF call
<1> SUFFICES ASSUME prompt <= SoftLimit PROVE
        /\ \A k \in 1..Len(totals') : totals'[k] <= SoftLimit + Header
        /\ at' \in {"pack", "multi"} => total' <= SoftLimit + Header
        /\ at' = "done" /\ mode # "multi" => total' <= HardLimit + Excess + 2
  BY <1>0 DEF Limited, SoftLimit, HardLimit
<1>a. /\ \A k \in 1..Len(totals) : totals[k] <= SoftLimit + Header
      /\ at \in {"pack", "multi"} => total <= SoftLimit + Header
      /\ at = "done" /\ mode # "multi" => total <= HardLimit + Excess + 2
  BY DEF Limited
<1>b. /\ SoftLimit + Header <= HardLimit + Excess + 2 /\ prompt <= SoftLimit + Header
      /\ SoftLimit \in Int /\ HardLimit \in Int /\ Header \in Nat /\ Excess \in Nat
  <2>1. /\ MaxTokens \in Nat /\ Soft \in Nat /\ Hard \in Nat /\ Header \in Nat /\ prompt \in Nat
        /\ Excess \in Nat
    BY Numbers, Ranges
  <2> QED
    BY <2>1 DEF ShortHeader, SoftLimit, HardLimit
<1>1. CASE Extend
  BY <1>1, <1>a DEF Extend
<1>2. CASE EndExtend
  <2>1. chunks = <<>> /\ Len(totals) = 0
    BY <1>2 DEF EndExtend, Shape, Extending, Counted
  <2>2. CASE total + Soft < MaxTokens
    <3>1. total <= SoftLimit /\ total <= HardLimit + Excess + 2 /\ total <= SoftLimit + Header
      BY <2>2, <1>b, Ranges, Numbers DEF SoftLimit, HardLimit
    <3>2. totals' \in {<<>>, <<total>>} /\ total' = total
      BY <1>2, <2>2 DEF EndExtend
    <3>3. \A k \in 1..Len(totals') : totals'[k] <= SoftLimit + Header
      BY <3>1, <3>2
    <3>4. at' = "done"
      BY <1>2, <2>2 DEF EndExtend
    <3> QED
      BY <3>1, <3>2, <3>3, <3>4
  <2>3. CASE ~(total + Soft < MaxTokens)
    <3>1. totals' = totals /\ total' = prompt /\ at' \in {"pack", "multi"}
      BY <1>2, <2>3 DEF EndExtend
    <3> QED
      BY <1>a, <1>b, <3>1
  <2> QED
    BY <2>2, <2>3
<1>3. CASE Pack
  <2>1. at = "pack" /\ at' = at /\ totals' = totals
    BY <1>3 DEF Pack
  <2>2. CASE total' = total
    BY <1>a, <2>1, <2>2
  <2>3. CASE total' # total
    <3>1. i \in Files /\ Fits(i) /\ total' = total + Tokens(i) + Overhead
      BY <1>3, <2>3, Ranges DEF Pack
    <3>2. total' <= SoftLimit + Header
      BY <3>1, TokensType, Ranges, Numbers DEF Fits
    <3> QED
      BY <1>a, <2>1, <3>2
  <2> QED
    BY <2>2, <2>3
<1>4. CASE EndPass
  <2>1. at = "pack" /\ total <= SoftLimit + Header
    BY <1>4, <1>a DEF EndPass
  <2>2. \A k \in 1..Len(totals') : totals'[k] <= SoftLimit + Header
    <3>1. CASE passes = 0 \/ chunk # {}
      BY <1>4, <1>a, <2>1, <3>1, ClosedLimited DEF EndPass
    <3>2. CASE ~(passes = 0 \/ chunk # {})
      BY <1>4, <1>a, <3>2 DEF EndPass
    <3> QED
      BY <3>1, <3>2
  <2>3. total' \in {prompt, total}
    BY <1>4 DEF EndPass, FreshTotal
  <2>4. total' <= SoftLimit + Header /\ total' <= HardLimit + Excess + 2
    BY <1>b, <2>1, <2>3, Ranges
  <2> QED
    BY <2>2, <2>4
<1>5. CASE Lists
  <2>1. at' = "done" /\ totals' = totals
    BY <1>5 DEF Lists
  <2>2. totals \in Seq(Nat) /\ Len(totals) = 1
    BY <1>5 DEF Lists, Shape, Listing, Counted, TypeOK
  <2>3. totals[1] \in Nat /\ totals[1] <= HardLimit + Excess + 2
    <3>1. totals[1] \in Nat /\ totals[1] <= SoftLimit + Header
      BY <2>2, <1>a
    <3> QED
      BY <3>1, <1>b
  <2>4. \A K : Unpacked(K) \subseteq Files
    BY DEF Unpacked
  <2>5. PICK added \in Clipped(Unpacked({"added"}), HardLimit - totals[1]) :
        \E modified \in Clipped(Unpacked({"modified", "emptied"}), RoomAfter(added)) :
            total' = totals[1] + Cost(added) + Cost(modified)
    BY <1>5 DEF Lists
  <2>6. PICK modified \in Clipped(Unpacked({"modified", "emptied"}), RoomAfter(added)) :
            total' = totals[1] + Cost(added) + Cost(modified)
    BY <2>5
  <2>7. HardLimit - totals[1] \in Int
    BY <1>b, <2>3
  <2>8. /\ Cost(added) \in Nat
        /\ Cost(added) = 0 \/ Cost(added) <= HardLimit - totals[1] + Excess + 2
    BY <2>4, <2>5, <2>7, ClippedType
  <2>9. RoomAfter(added) = HardLimit - totals[1] - Cost(added) /\ RoomAfter(added) \in Int
    BY <2>7, <2>8 DEF RoomAfter
  <2>10. /\ Cost(modified) \in Nat
         /\ Cost(modified) = 0 \/ Cost(modified) <= RoomAfter(added) + Excess + 2
    BY <2>4, <2>6, <2>9, ClippedType
  <2>11. total' <= HardLimit + Excess + 2
    BY <1>b, <2>3, <2>6, <2>8, <2>9, <2>10
  <2> QED
    BY <1>a, <2>1, <2>11
<1>6. CASE Multi
  <2>1. at = "multi" /\ mode = "multi" /\ i \in Files
    BY <1>6, Ranges DEF Multi, Shape, Gathering
  <2>2. PICK n \in MultiSizes(i) : PassedOver(n) \/ Joins(n) \/ Closes(n)
    BY <1>6, MultiCases
  <2>3. n \in Nat /\ (n # 0 => prompt + n <= SoftLimit)
    BY <2>1, MultiSizesFit
  <2>4. total <= SoftLimit + Header
    BY <1>a, <2>1
  <2>5. total' <= SoftLimit + Header
    BY <1>b, <2>2, <2>3, <2>4, Ranges DEF PassedOver, Joins, Closes
  <2>6. \A k \in 1..Len(totals') : totals'[k] <= SoftLimit + Header
    <3>1. CASE totals' = totals
      BY <1>a, <3>1
    <3>2. CASE Closes(n)
      BY <1>a, <2>4, <3>2, ClosedLimited DEF Closes
    <3> QED
      BY <2>2, <3>1, <3>2 DEF PassedOver, Joins
  <2> QED
    BY <2>1, <2>5, <2>6
<1>7. CASE EndMulti
  <2>1. at = "multi" /\ mode = "multi" /\ at' = "done"
    BY <1>7 DEF EndMulti, Shape, Gathering
  <2>2. \A k \in 1..Len(totals') : totals'[k] <= SoftLimit + Header
    <3>1. CASE chunk # {}
      BY <1>7, <1>a, <2>1, <3>1, ClosedLimited DEF EndMulti
    <3>2. CASE chunk = {}
      BY <1>7, <1>a, <3>2 DEF EndMulti
    <3> QED
      BY <3>1, <3>2
  <2> QED
    BY <2>1, <2>2
<1>8. CASE UNCHANGED vars
  BY <1>8, <1>a DEF vars
<1> QED
  BY <1>1, <1>2, <1>3, <1>4, <1>5, <1>6, <1>7, <1>8 DEF Next

\* When headers are short, no prompt takes from the answer more than the header
\* of its last file, and the lists of a prompt use up no more of what the hard
\* threshold keeps back than one clip may.
THEOREM BudgetCorrectness == ShortHeader => (Spec => []BudgetKept)
<1>1. Init => Limited
  BY LimitedInit
<1>2. ShortHeader /\ TypeOK /\ Shape /\ Limited /\ [Next]_vars => Limited'
  BY LimitedNext
<1>3. Limited => BudgetKept
  BY DEF Limited, BudgetKept
<1> SUFFICES ASSUME ShortHeader PROVE Spec => []BudgetKept
  OBVIOUS
<1>4. TypeOK /\ Shape /\ Limited /\ [Next]_vars => Limited'
  BY <1>2
<1> QED
  BY <1>1, <1>3, <1>4, ShapeInvariant, PTL DEF Spec

-----------------------------------------------------------------------------
\* The account of the files.

Packed(f) == \E k \in 1..Len(chunks) : f \in chunks[k]

\* All calls are used, for files before f.
OutOfCalls(f) ==
    Len(chunks) = MaxCalls /\ \A k \in 1..Len(chunks) : \A g \in chunks[k] : g < f

\* Where a file with something to show is when the call is done.
Settled(f) ==
    \/ Packed(f)
    \/ mode # "multi" /\ f \in left
    \/ mode = "multi" /\ (TooLargeAlone(f) \/ OutOfCalls(f))

\* The files with something to show.
Shown == {f \in Files : InFileDict(f) /\ Tokens(f) > 0}

\* The prompt and one header past the soft limit leave the hard one alone.
NoHardStop == prompt <= HardLimit /\ Header <= Soft - Hard

\* Where each file is while a loop runs.
Accounted ==
    NoHardStop =>
        /\ at = "pack" => total <= HardLimit
        /\ at = "pack" => \A f \in Shown :
              Packed(f) \/ (f \in left /\ (f < i => f \in chunk \cup skipped))
        /\ at = "multi" => \A f \in Shown :
              f < i => Packed(f) \/ f \in chunk \/ TooLargeAlone(f)
        /\ at \in {"lists", "done"} => \A f \in Shown : Settled(f)

\* What was packed stays packed when a prompt is closed, with that prompt's files.
LEMMA ClosedPacked ==
    ASSUME TypeOK, Shape, chunks' = Append(chunks, chunk), totals' = Append(totals, total)
    PROVE  \A f : Packed(f) \/ f \in chunk => Packed(f)'
<1>1. /\ Len(chunks) \in Nat /\ Len(chunks') = Len(chunks) + 1
      /\ \A k \in 1..Len(chunks) : chunks'[k] = chunks[k]
      /\ chunks'[Len(chunks) + 1] = chunk
  BY Closed, TypeParts DEF Shape
<1>2. ASSUME NEW f, Packed(f) PROVE Packed(f)'
  <2>1. PICK k \in 1..Len(chunks) : f \in chunks[k]
    BY <1>2 DEF Packed
  <2>2. k \in 1..Len(chunks') /\ f \in chunks'[k]
    BY <1>1, <2>1
  <2> QED
    BY <2>2 DEF Packed
<1>3. ASSUME NEW f, f \in chunk PROVE Packed(f)'
  <2>1. Len(chunks) + 1 \in 1..Len(chunks') /\ f \in chunks'[Len(chunks) + 1]
    BY <1>1, <1>3
  <2> QED
    BY <2>1 DEF Packed
<1> QED
  BY <1>2, <1>3

LEMMA AccountedInit == Init => Accounted
  BY DEF Init, Accounted

LEMMA AccountedNext == TypeOK /\ Shape /\ Accounted /\ [Next]_vars => Accounted'
<1> SUFFICES ASSUME TypeOK, Shape, Accounted, [Next]_vars PROVE Accounted'
  OBVIOUS
<1>0. /\ UNCHANGED <<mode, prompt, file, numbered>> /\ Shown' = Shown
      /\ NoHardStop' <=> NoHardStop
      /\ \A f : TooLargeAlone(f)' <=> TooLargeAlone(f)
  BY CallStays DEF call, Shown, InFileDict, Tokens, NoHardStop, HardLimit,
                   TooLargeAlone, Overhead, SoftLimit
<1> SUFFICES ASSUME NoHardStop PROVE
        /\ at' = "pack" => total' <= HardLimit
        /\ at' = "pack" => \A f \in Shown :
              Packed(f)' \/ (f \in left' /\ (f < i' => f \in chunk' \cup skipped'))
        /\ at' = "multi" => \A f \in Shown :
              f < i' => Packed(f)' \/ f \in chunk' \/ TooLargeAlone(f)
        /\ at' \in {"lists", "done"} => \A f \in Shown : Settled(f)'
  BY <1>0 DEF Accounted, HardLimit
<1>a. /\ at = "pack" => total <= HardLimit
      /\ at = "pack" => \A f \in Shown :
            Packed(f) \/ (f \in left /\ (f < i => f \in chunk \cup skipped))
      /\ at = "multi" => \A f \in Shown :
            f < i => Packed(f) \/ f \in chunk \/ TooLargeAlone(f)
      /\ at \in {"lists", "done"} => \A f \in Shown : Settled(f)
  BY DEF Accounted
<1>b. chunks' = chunks => \A f : Packed(f)' <=> Packed(f)
  BY DEF Packed
<1>s. chunks' = chunks /\ left' = left => \A f : Settled(f)' <=> Settled(f)
  BY <1>0, <1>b DEF Settled, OutOfCalls
<1>c. \A f \in Shown : f \in Files /\ InFileDict(f) /\ HasPatch(f) /\ f \in Nat /\ f >= 1 /\ f <= NumFiles
  BY Ranges DEF Shown, InFileDict, HasPatch
<1>1. CASE Extend
  BY <1>1 DEF Extend
<1>2. CASE EndExtend
  <2>1. /\ at = "extend" /\ i = NumFiles + 1 /\ left' = left /\ left = Files
        /\ \A f \in Shown : f \in chunk
    <3>1. at = "extend" /\ i = NumFiles + 1 /\ left' = left
      BY <1>2 DEF EndExtend
    <3>2. left = Files /\ \A f \in 1..i - 1 : HasPatch(f) => f \in chunk
      BY <3>1 DEF Shape, Extending
    <3>3. \A f \in Shown : f \in 1..i - 1
      BY <1>c, <3>1, Ranges
    <3> QED
      BY <1>c, <3>1, <3>2, <3>3
  <2>2. CASE total + Soft < MaxTokens
    <3>1. at' = "done" /\ (chunks' = <<chunk>> \/ chunk = {})
      BY <1>2, <2>2 DEF EndExtend
    <3>2. ASSUME NEW f \in Shown PROVE Packed(f)'
      <4>1. chunks' = <<chunk>> /\ f \in chunk
        BY <2>1, <3>1
      <4>2. 1 \in 1..Len(chunks') /\ f \in chunks'[1]
        BY <4>1
      <4> QED
        BY <4>2 DEF Packed
    <3> QED
      BY <3>1, <3>2 DEF Settled
  <2>3. CASE ~(total + Soft < MaxTokens)
    <3>1. at' \in {"pack", "multi"} /\ i' = 1 /\ total' = prompt
      BY <1>2, <2>3 DEF EndExtend
    <3>2. total' <= HardLimit
      BY <3>1 DEF NoHardStop
    <3>3. \A f \in Shown : ~(f < i') /\ f \in left'
      BY <1>c, <2>1, <3>1
    <3> QED
      BY <3>1, <3>2, <3>3
  <2> QED
    BY <2>2, <2>3
<1>3. CASE Pack
  <2>1. /\ at = "pack" /\ at' = at /\ i' = i + 1 /\ i \in Files
        /\ UNCHANGED <<chunks, left>> /\ total <= HardLimit
    BY <1>3, <1>a, Ranges DEF Pack
  <2>2. total' <= HardLimit
    <3>1. CASE total' = total
      BY <2>1, <3>1
    <3>2. CASE total' # total
      <4>1. Fits(i) /\ total' = total + Tokens(i) + Overhead
        BY <1>3, <3>2 DEF Pack
      <4>2. SoftLimit + Header <= HardLimit /\ Overhead <= Header
        BY Numbers DEF NoHardStop, SoftLimit, HardLimit
      <4> QED
        BY <2>1, <4>1, <4>2, TokensType, Ranges, Numbers DEF Fits
    <3> QED
      BY <3>1, <3>2
  <2>3. ASSUME NEW f \in Shown
        PROVE  Packed(f) \/ (f \in left /\ (f < i' => f \in chunk' \cup skipped'))
    <3>1. Packed(f) \/ (f \in left /\ (f < i => f \in chunk \cup skipped))
      BY <1>a, <2>1
    <3>2. chunk \subseteq chunk' /\ skipped \subseteq skipped'
      BY <1>3 DEF Pack
    <3>3. f < i' => f < i \/ f = i
      BY <1>c, <2>1, Ranges
    <3>4. ASSUME f = i, i \in left PROVE f \in chunk' \cup skipped'
      <4>1. InFileDict(i) /\ ~HardStop
        BY <1>c, <2>1, <3>4, Ranges, Numbers DEF HardStop
      <4>2. Tokens(i) # 0
        BY <3>4 DEF Shown
      <4> QED
        BY <1>3, <3>4, <4>1, <4>2 DEF Pack
    <3> QED
      BY <3>1, <3>2, <3>3, <3>4
  <2> QED
    BY <1>b, <2>1, <2>2, <2>3
<1>4. CASE EndPass
  <2>1. /\ at = "pack" /\ i = NumFiles + 1 /\ left' = skipped /\ mode # "multi"
        /\ at' # "multi"
    BY <1>4 DEF EndPass, Remaining, Shape, Packing
  <2>2. ASSUME NEW f \in Shown PROVE Packed(f)' \/ f \in left'
    <3>1. Packed(f) \/ f \in chunk \cup skipped
      BY <1>a, <1>c, <2>1, Ranges
    <3>2. CASE passes = 0 \/ chunk # {}
      BY <1>4, <2>1, <3>1, <3>2, ClosedPacked DEF EndPass
    <3>3. CASE ~(passes = 0 \/ chunk # {})
      BY <1>4, <1>b, <2>1, <3>1, <3>3 DEF EndPass
    <3> QED
      BY <3>2, <3>3
  <2>3. ASSUME at' = "pack" PROVE total' <= HardLimit /\ i' = 1
    BY <1>4, <2>3 DEF EndPass, FreshTotal, NoHardStop
  <2>4. at' = "pack" => \A f \in Shown : ~(f < i')
    BY <1>c, <2>3
  <2>5. \A f \in Shown : Settled(f)'
    BY <1>0, <2>1, <2>2 DEF Settled
  <2> QED
    BY <2>1, <2>2, <2>3, <2>4, <2>5
<1>5. CASE Lists
  BY <1>5, <1>a, <1>s DEF Lists
<1>6. CASE Multi
  <2>1. at = "multi" /\ mode = "multi" /\ i \in Files
    BY <1>6, Ranges DEF Multi, Shape, Gathering
  <2>2. PICK n \in MultiSizes(i) : PassedOver(n) \/ Joins(n) \/ Closes(n)
    BY <1>6, MultiCases
  <2>3. CASE PassedOver(n)
    <3>1. ASSUME NEW f \in Shown, f < i'
          PROVE  Packed(f)' \/ f \in chunk' \/ TooLargeAlone(f)
      <4>1. f < i \/ f = i
        BY <1>c, <2>3, <3>1, Ranges DEF PassedOver
      <4>2. f = i => TooLargeAlone(f)
        <5>1. InFileDict(f) /\ Tokens(f) > 0 /\ Tokens(f) \in Nat
          BY <3>1, TokensType DEF Shown
        <5>2. Tokens(f) + Overhead # 0
          BY <5>1, Numbers
        <5> QED
          BY <1>c, <2>2, <2>3, <3>1, <5>1, <5>2, Ranges, Numbers
          DEF MultiSizes, PassedOver, TooLargeAlone
      <4> QED
        BY <1>a, <1>b, <1>c, <2>1, <2>3, <3>1, <4>1, <4>2 DEF PassedOver
    <3> QED
      BY <2>1, <2>3, <3>1 DEF PassedOver
  <2>4. CASE Joins(n)
    <3>1. ASSUME NEW f \in Shown, f < i'
          PROVE  Packed(f)' \/ f \in chunk' \/ TooLargeAlone(f)
      <4>1. f < i \/ f = i
        BY <1>c, <2>4, <3>1, Ranges DEF Joins
      <4> QED
        BY <1>a, <1>b, <2>1, <2>4, <4>1 DEF Joins
    <3> QED
      BY <2>1, <2>4, <3>1 DEF Joins
  <2>5. CASE Closes(n)
    <3>1. \A f : Packed(f) \/ f \in chunk => Packed(f)'
      BY <2>5, ClosedPacked DEF Closes
    <3>2. ASSUME NEW f \in Shown, f < i
          PROVE  Packed(f)' \/ TooLargeAlone(f)
      BY <1>a, <2>1, <2>5, <3>1, <3>2 DEF Closes
    <3>3. CASE StopMulti
      <4>1. at' = "done" /\ Len(chunks) + 1 = MaxCalls
        BY <2>5, <3>3 DEF Closes, StopMulti
      <4>2. /\ Len(chunks') = Len(chunks) + 1 /\ Len(chunks) \in Nat
            /\ \A k \in 1..Len(chunks) : chunks'[k] = chunks[k]
            /\ chunks'[Len(chunks) + 1] = chunk
        BY <2>5, Closed, TypeParts DEF Closes, Shape
      <4>3. chunk \subseteq 1..i - 1 /\ \A k \in 1..Len(chunks) : chunks[k] \subseteq 1..i - 1
        BY <2>1 DEF Shape, Gathering
      <4>4. \A k \in 1..Len(chunks') : chunks'[k] \subseteq 1..i - 1
        <5> SUFFICES ASSUME NEW k \in 1..Len(chunks') PROVE chunks'[k] \subseteq 1..i - 1
          OBVIOUS
        <5>1. k \in 1..Len(chunks) \/ k = Len(chunks) + 1
          BY <4>2
        <5> QED
          BY <4>2, <4>3, <5>1
      <4>5. ASSUME NEW f \in Shown, ~(f < i) PROVE OutOfCalls(f)'
        <5>1. \A g \in 1..i - 1 : g < f
          BY <1>c, <4>5, Ranges
        <5> QED
          BY <4>1, <4>2, <4>4, <5>1 DEF OutOfCalls
      <4>6. \A f \in Shown : Settled(f)'
        BY <1>0, <2>1, <3>2, <4>5 DEF Settled
      <4> QED
        BY <4>1, <4>6
    <3>4. CASE ~StopMulti
      <4>1. at' = "multi" /\ i' = i + 1 /\ chunk' = {i}
        BY <2>1, <2>5, <3>4 DEF Closes
      <4>2. ASSUME NEW f \in Shown, f < i' PROVE Packed(f)' \/ f \in chunk' \/ TooLargeAlone(f)
        <5>1. f < i \/ f = i
          BY <1>c, <4>1, <4>2, Ranges
        <5> QED
          BY <3>2, <4>1, <5>1
      <4> QED
        BY <4>1, <4>2
    <3> QED
      BY <3>3, <3>4
  <2> QED
    BY <2>2, <2>3, <2>4, <2>5
<1>7. CASE EndMulti
  <2>1. at = "multi" /\ mode = "multi" /\ i = NumFiles + 1 /\ at' = "done"
    BY <1>7 DEF EndMulti, Shape, Gathering
  <2>2. ASSUME NEW f \in Shown PROVE Packed(f)' \/ TooLargeAlone(f)
    <3>1. Packed(f) \/ f \in chunk \/ TooLargeAlone(f)
      BY <1>a, <1>c, <2>1, Ranges
    <3>2. CASE chunk # {}
      BY <1>7, <2>1, <3>1, <3>2, ClosedPacked DEF EndMulti
    <3>3. CASE chunk = {}
      BY <1>7, <1>b, <2>1, <3>1, <3>3 DEF EndMulti
    <3> QED
      BY <3>2, <3>3
  <2>3. \A f \in Shown : Settled(f)'
    BY <1>0, <2>1, <2>2 DEF Settled
  <2> QED
    BY <2>1, <2>3
<1>8. CASE UNCHANGED vars
  BY <1>8, <1>a, <1>b, <1>s DEF vars
<1> QED
  BY <1>1, <1>2, <1>3, <1>4, <1>5, <1>6, <1>7, <1>8 DEF Next

\* No file with something to show falls between two prompts or two passes: it is
\* in a prompt, in the remaining files, too large for any prompt, or behind the
\* last file the calls were enough for.
THEOREM AccountCorrectness == Spec => []EveryFileAccountedFor
<1>1. Init => Accounted
  BY AccountedInit
<1>2. TypeOK /\ Shape /\ Accounted /\ [Next]_vars => Accounted'
  BY AccountedNext
<1>3. Accounted => EveryFileAccountedFor
  BY DEF Accounted, EveryFileAccountedFor, NoHardStop, Shown, Settled, Packed, OutOfCalls
<1> QED
  BY <1>1, <1>2, <1>3, ShapeInvariant, PTL DEF Spec
=============================================================================
