---------------------- MODULE RequestPreparationProofs ----------------------
(***************************************************************************)
(* Proofs about RequestPreparation and JsonKeyLimit.                       *)
(*                                                                         *)
(* RequestPreparation, for a body of any length, any chunks and any        *)
(* capacity of the channel: the reader gets the body in its order, and     *)
(* nothing but the end of a complete body becomes a request.               *)
(*                                                                         *)
(* JsonKeyLimit, for documents of any length and both limits arbitrary:    *)
(* the filter's flags follow the document, what passes is within the       *)
(* limits, and what is refused is not.                                     *)
(***************************************************************************)
EXTENDS RequestPreparation, JsonKeyLimit, SumTheorems, SequenceTheorems, TLAPS

Over == pump \in {"returning", "returned"}

(* The sections: those read, in the channel and not yet sent are what has  *)
(* arrived, as long as the upload has not failed.                          *)
Conserved ==
  /\ \A i \in 1..Len(chan) : chan[i] = read + i
  /\ error = "none" => read + Len(chan) + unsent = arrived
  /\ ~Over => error = "none"
  /\ pump = "sending" => unsent > 0
  /\ pump # "sending" /\ error = "none" => unsent = 0
  /\ Over /\ error = "none" => arrived = size

UploadInv ==
  /\ arrived \in Nat /\ unsent \in Nat /\ read \in Nat /\ chan \in Seq(Nat)
  /\ Reading => Conserved
  /\ reader = "eof" => read = size

PreparationInv ==
  /\ UploadInv
  /\ result = "ok" => reader = "eof"

-----------------------------------------------------------------------------
(* The upload.                                                             *)

LEMMA UploadStarts == PrepareInit => PreparationInv
<1> SUFFICES ASSUME PrepareInit PROVE PreparationInv
  OBVIOUS
<1>1. /\ arrived = 0 /\ unsent = 0 /\ read = 0 /\ chan = <<>>
      /\ pump = "top" /\ error = "none" /\ reader = "starting"
      /\ result \in {"reading", "spooling"}
  BY DEF PrepareInit, Init, OpenAi!Init, Anthropic!Init
<1>2. chan \in Seq(Nat) /\ Len(chan) = 0
  BY <1>1
<1>3. QED
  BY <1>1, <1>2 DEF PreparationInv, UploadInv, Conserved, Over

(* What the pump takes from the body it has to send.                       *)
LEMMA ChunkKeepsUpload ==
  ASSUME UploadInv, ChunkArrives
  PROVE  UploadInv'
<1>1. PICK n \in 0..ChunkSections :
        /\ arrived' = arrived + n
        /\ IF late
           THEN Fail("timeout") /\ UNCHANGED unsent
           ELSE /\ pump' = IF n = 0 THEN "top" ELSE "sending"
                /\ unsent' = n
                /\ UNCHANGED error
  BY DEF ChunkArrives
<1>2. n \in Nat
  OBVIOUS
<1>3. pump = "awaiting" /\ UNCHANGED <<size, chan, reader, read>>
  BY DEF ChunkArrives
<1>4. arrived' \in Nat /\ unsent' \in Nat
  BY <1>1, <1>2 DEF UploadInv
<1>5. ASSUME Reading PROVE Conserved'
  <2>1. /\ \A i \in 1..Len(chan) : chan[i] = read + i
        /\ error = "none" /\ unsent = 0 /\ read + Len(chan) + unsent = arrived
    BY <1>3, <1>5 DEF UploadInv, Conserved, Over
  <2>2. read + Len(chan) \in Nat
    BY DEF UploadInv
  <2>3. read + Len(chan) = arrived
    BY <2>1, <2>2
  <2>4. CASE late
    BY <1>1, <1>3, <2>1, <2>4 DEF Conserved, Over, Fail
  <2>5. CASE ~late
    BY <1>1, <1>2, <1>3, <2>1, <2>3, <2>5 DEF Conserved, Over
  <2>6. QED
    BY <2>4, <2>5
<1>6. QED
  BY <1>3, <1>4, <1>5 DEF UploadInv, Reading

(* The section sent is the next one.                                       *)
LEMMA SendKeepsUpload ==
  ASSUME UploadInv, SendSection
  PROVE  UploadInv'
<1> DEFINE c == Len(chan)
           item == arrived - unsent + 1
<1>1. /\ pump = "sending" /\ Reading /\ chan' = Append(chan, item)
      /\ unsent' = unsent - 1
      /\ pump' = IF unsent = 1 THEN "top" ELSE "sending"
      /\ UNCHANGED <<size, arrived, error, reader, read>>
  BY DEF SendSection, SectionDone
<1>2. /\ \A i \in 1..c : chan[i] = read + i
      /\ error = "none" /\ unsent > 0 /\ read + c + unsent = arrived
      /\ c \in Nat /\ arrived \in Nat /\ unsent \in Nat /\ read \in Nat
      /\ chan \in Seq(Nat)
  BY <1>1 DEF UploadInv, Conserved, Over
<1>3. /\ item = read + (c + 1) /\ item \in Nat /\ unsent - 1 \in Nat
      /\ read + (c + 1) + (unsent - 1) = arrived
  <2> HIDE DEF c
  <2>1. QED
    BY <1>2
<1>4. /\ chan' \in Seq(Nat) /\ Len(chan') = c + 1
      /\ \A i \in 1..c : chan'[i] = chan[i]
      /\ chan'[c + 1] = item
  BY <1>1, <1>2, <1>3, AppendProperties
<1>5. \A i \in 1..Len(chan') : chan'[i] = read + i
  <2> SUFFICES ASSUME NEW i \in 1..(c + 1) PROVE chan'[i] = read + i
    BY <1>4
  <2>1. i \in 1..c \/ i = c + 1
    BY <1>2
  <2>2. QED
    BY <1>2, <1>3, <1>4, <2>1
<1> HIDE DEF c, item
<1>6. Conserved'
  <2>1. read' + Len(chan') + unsent' = arrived' /\ error' = "none"
    <3>1. Len(chan') = c + 1 /\ unsent' = unsent - 1 /\ read' = read
          /\ arrived' = arrived /\ error' = "none"
      BY <1>1, <1>2, <1>4
    <3>2. QED
      BY <1>3, <3>1
  <2>2. pump' \in {"top", "sending"}
    BY <1>1
  <2>3. pump' = "sending" => unsent' > 0
    BY <1>1, <1>2
  <2>4. pump' # "sending" => unsent' = 0
    BY <1>1
  <2>5. \A i \in 1..Len(chan') : chan'[i] = read' + i
    BY <1>1, <1>5
  <2>6. QED
    BY <2>1, <2>2, <2>3, <2>4, <2>5 DEF Conserved, Over
<1>7. QED
  BY <1>1, <1>2, <1>3, <1>4, <1>6 DEF UploadInv, Reading

LEMMA PumpKeepsUpload ==
  ASSUME UploadInv, PumpNext \/ DeadlinePasses \/ Start
  PROVE  UploadInv'
<1> USE DEF UploadInv, Conserved, Over, Reading
<1>1. CASE TopOfLoop \/ Return \/ DeadlinePasses \/ Start
  BY <1>1 DEF TopOfLoop, Fail, Return, DeadlinePasses, Start
<1>2. CASE BodyEnds \/ BodyFails \/ BodyTimesOut
  BY <1>2 DEF BodyEnds, BodyFails, BodyTimesOut, Fail
<1>3. CASE SendRefused \/ SendTimesOut
  BY <1>3 DEF SendRefused, SendTimesOut, Fail
<1>4. QED
  BY <1>1, <1>2, <1>3, ChunkKeepsUpload, SendKeepsUpload DEF PumpNext

(* The section read is the next one, and the end of a channel without an   *)
(* error is the end of the body.                                           *)
LEMMA ReadKeepsUpload ==
  ASSUME UploadInv, ReadSection
  PROVE  UploadInv'
<1> DEFINE c == Len(chan)
<1>1. /\ reader = "reading" /\ chan # <<>> /\ read' = Head(chan)
      /\ chan' = Tail(chan)
      /\ UNCHANGED <<size, arrived, pump, unsent, error, reader>>
  BY DEF ReadSection
<1>2. /\ chan \in Seq(Nat) /\ c \in Nat \ {0} /\ Head(chan) = chan[1]
      /\ Len(chan') = c - 1 /\ chan' \in Seq(Nat)
      /\ \A i \in 1..(c - 1) : chan'[i] = chan[i + 1]
  <2>1. chan \in Seq(Nat) /\ c \in Nat \ {0}
    BY <1>1, EmptySeq DEF UploadInv
  <2>2. Head(chan) = chan[1]
    BY <2>1
  <2>3. QED
    BY <1>1, <2>1, <2>2, HeadTailProperties
<1>3. Conserved
  BY <1>1 DEF UploadInv, Reading
<1>4. read' = read + 1
  <2>1. 1 \in 1..c
    BY <1>2
  <2>2. QED
    BY <1>1, <1>2, <1>3, <2>1 DEF Conserved
<1>5. \A i \in 1..Len(chan') : chan'[i] = read' + i
  <2> SUFFICES ASSUME NEW i \in 1..(c - 1) PROVE chan'[i] = read' + i
    BY <1>2
  <2>1. i + 1 \in 1..c /\ read \in Nat
    BY <1>2 DEF UploadInv
  <2>2. chan[i + 1] = read + (i + 1)
    BY <1>3, <2>1 DEF Conserved
  <2>3. read + (i + 1) = (read + 1) + i
    BY <2>1
  <2>4. QED
    BY <1>2, <1>4, <2>2, <2>3
<1>6. error = "none" => read' + Len(chan') + unsent = arrived
  <2>1. /\ error = "none" => read + c + unsent = arrived
        /\ c \in Nat /\ read \in Nat /\ unsent \in Nat /\ Len(chan') = c - 1
    BY <1>2, <1>3 DEF UploadInv, Conserved
  <2> HIDE DEF c
  <2>2. QED
    BY <1>4, <2>1
<1>7. Conserved'
  BY <1>1, <1>3, <1>5, <1>6 DEF Conserved, Over
<1>8. QED
  BY <1>1, <1>2, <1>4, <1>7 DEF UploadInv, Reading

LEMMA EndKeepsUpload ==
  ASSUME UploadInv, ReadEnd
  PROVE  UploadInv'
<1>1. /\ reader = "reading" /\ chan = <<>> /\ pump = "returned"
      /\ reader' = IF error = "none" THEN "eof" ELSE "error"
      /\ UNCHANGED <<size, arrived, pump, unsent, chan, read>>
  BY DEF ReadEnd
<1>2. /\ Conserved /\ Len(chan) = 0
      /\ read \in Nat /\ unsent \in Nat /\ arrived \in Nat
  BY <1>1 DEF UploadInv, Reading
<1>3. error = "none" => read = size
  BY <1>1, <1>2 DEF Conserved, Over
<1>4. QED
  BY <1>1, <1>3 DEF UploadInv, Reading

-----------------------------------------------------------------------------
(* The worker.                                                             *)

(* Only the end of the object after the end of the body makes a request.   *)
LEMMA OpenAiStepPrepares ==
  ASSUME OpenAiStep, result' = "ok"
  PROVE  reader = "eof" /\ UNCHANGED vars
BY DEF OpenAiStep, OpenAi!CopyMember, OpenAi!RejectDuplicate, OpenAi!Capture,
       OpenAi!RejectHuge, OpenAi!ReadFails, OpenAi!SpoolIsFull,
       OpenAi!RejectControls, OpenAi!Finish, OpenAi!Fail, OpenAi!Reading

LEMMA AnthropicStepPrepares ==
  ASSUME AnthropicStep, result' = "ok"
  PROVE  reader = "eof" /\ UNCHANGED vars
BY DEF AnthropicStep, Anthropic!SpoolIsFull, Anthropic!SpoolFails,
       Anthropic!Fail

LEMMA NextKeepsInv ==
  PreparationInv /\ [PrepareNext]_allVars => PreparationInv'
<1> SUFFICES ASSUME PreparationInv, [PrepareNext]_allVars PROVE PreparationInv'
  OBVIOUS
<1>0. ASSUME UNCHANGED vars PROVE UploadInv' /\ reader' = reader
  BY <1>0 DEF vars, PreparationInv, UploadInv, Conserved, Over, Reading
<1>1. CASE UploadStep
  <2>1. UploadInv'
    BY <1>1, PumpKeepsUpload DEF UploadStep, PreparationInv
  <2>2. result' = result
    BY <1>1 DEF UploadStep, workerVars
  <2>3. reader = "eof" => reader' = "eof"
    BY <1>1 DEF UploadStep, PumpNext, TopOfLoop, ChunkArrives, BodyEnds,
                BodyFails, BodyTimesOut, SendSection, SendRefused,
                SendTimesOut, Return, DeadlinePasses, Start
  <2>4. QED
    BY <2>1, <2>2, <2>3 DEF PreparationInv
<1>2. CASE WorkerReads
  <2>1. UploadInv'
    BY <1>2, ReadKeepsUpload, EndKeepsUpload DEF WorkerReads, PreparationInv
  <2>2. result' # "ok"
    BY <1>2 DEF WorkerReads, WantsMore, workerVars
  <2>3. QED
    BY <2>1, <2>2 DEF PreparationInv
<1>3. CASE OpenAiStep
  BY <1>0, <1>3, OpenAiStepPrepares DEF OpenAiStep, PreparationInv
<1>4. CASE AnthropicStep
  BY <1>0, <1>4, AnthropicStepPrepares DEF AnthropicStep, PreparationInv
<1>5. CASE WorkerGivesUp
  <2>1. /\ reader = "reading" /\ reader' = "dropped" /\ chan' = <<>>
        /\ UNCHANGED <<arrived, unsent, read, result>>
    BY <1>5 DEF WorkerGivesUp, GiveUp, workerVars
  <2>2. QED
    BY <2>1 DEF PreparationInv, UploadInv, Reading
<1>6. CASE UNCHANGED allVars
  BY <1>0, <1>6 DEF allVars, workerVars, PreparationInv
<1>7. QED
  BY <1>1, <1>2, <1>3, <1>4, <1>5, <1>6 DEF PrepareNext, WorkerNext

LEMMA SpecKeepsInv == PrepareSpec => []PreparationInv
<1>1. QED
  BY UploadStarts, NextKeepsInv, PTL DEF PrepareSpec

-----------------------------------------------------------------------------
(* What pump_request_body sends and RequestBodyReader reads is the body    *)
(* without gap or repetition, whatever the sizes of its chunks and of the  *)
(* channel and wherever the deadline falls.                                *)
THEOREM NothingIsLost == PrepareSpec => []NothingLost
<1>1. PreparationInv => NothingLost
  BY DEF PreparationInv, UploadInv, Conserved, NothingLost
<1>2. QED
  BY <1>1, SpecKeepsInv, PTL

(* A request to a provider is prepared only from a complete body that was  *)
(* read to its end: a late, broken or refused upload never becomes one.    *)
THEOREM PreparedAlwaysComplete == PrepareSpec => []PreparedMeansComplete
<1>1. PreparationInv => PreparedMeansComplete
  BY DEF PreparationInv, UploadInv, PreparedMeansComplete
<1>2. QED
  BY <1>1, SpecKeepsInv, PTL

-----------------------------------------------------------------------------
(* What an Anthropic request is inspected for.                             *)

LEMMA BodyTyped ==
  /\ OpenAi!BoundedSeq(OpenAiMembers, MaxSections) \subseteq Seq(OpenAiMembers)
  /\ Anthropic!BoundedSeq(AnthropicMembers, MaxSections) \subseteq Seq(AnthropicMembers)
<1>1. MaxSections \in Nat
  BY PreparationAssumption
<1>2. QED
  BY <1>1 DEF OpenAi!BoundedSeq, OpenAi!SeqOf, Anthropic!BoundedSeq, Anthropic!SeqOf

LEMMA SumsAreOne ==
  ASSUME NEW f
  PROVE  OpenAi!SumFunction(f) = SumFunction(f) /\ Anthropic!SumFunction(f) = SumFunction(f)
BY DEF SumFunction, SumFunctionOnSet, FoldFunctionOnSet, MapThenFoldSet,
       OpenAi!SumFunction, OpenAi!SumFunctionOnSet, OpenAi!FoldFunctionOnSet,
       OpenAi!MapThenFoldSet, Anthropic!SumFunction, Anthropic!SumFunctionOnSet,
       Anthropic!FoldFunctionOnSet, Anthropic!MapThenFoldSet

(* The images in the first n members of a body.                            *)
ImagesUpTo(members, n) ==
  SumFunction([i \in 1..Len(members) |-> IF i <= n THEN members[i].images ELSE 0])

LEMMA ImagesAdd ==
  ASSUME NEW S, \A member \in S : member.images \in Nat,
         NEW members \in Seq(S), NEW n \in 0..Len(members)
  PROVE  /\ ImagesUpTo(members, n) \in Nat
         /\ ImagesUpTo(members, 0) = 0
         /\ n < Len(members) =>
              ImagesUpTo(members, n + 1) = ImagesUpTo(members, n) + members[n + 1].images
         /\ ImagesUpTo(members, Len(members)) =
              SumFunction([i \in 1..Len(members) |-> members[i].images])
<1> DEFINE Upto(m) ==
             [i \in 1..Len(members) |-> IF i <= m THEN members[i].images ELSE 0]
<1>1. Len(members) \in Nat /\ \A i \in 1..Len(members) : members[i].images \in Nat
  OBVIOUS
<1>2. IsFiniteSet(1..Len(members))
  BY <1>1, FS_Interval
<1>3. \A m : Upto(m) \in [1..Len(members) -> Nat]
  BY <1>1
<1>4. ImagesUpTo(members, n) \in Nat
  BY <1>2, <1>3, SumOfNaturals DEF ImagesUpTo
<1>5. ImagesUpTo(members, 0) = 0
  <2>1. Upto(0) = [i \in 1..Len(members) |-> 0]
    BY <1>1
  <2>2. QED
    BY <1>2, <2>1, SumOfZeros DEF ImagesUpTo
<1>6. ASSUME n < Len(members)
      PROVE  ImagesUpTo(members, n + 1) = ImagesUpTo(members, n) + members[n + 1].images
  <2>1. n + 1 \in 1..Len(members)
    BY <1>1, <1>6
  <2>2. \A i \in (1..Len(members)) \ {n + 1} : Upto(n)[i] = Upto(n + 1)[i]
    BY <1>1
  <2>3. Upto(n)[n + 1] = 0 /\ Upto(n + 1)[n + 1] = members[n + 1].images
    BY <2>1
  <2>4. /\ Upto(n) \in [1..Len(members) -> Int]
        /\ Upto(n + 1) \in [1..Len(members) -> Int]
    BY <1>1
  <2>5. SumFunction(Upto(n + 1)) =
          SumFunction(Upto(n)) - Upto(n)[n + 1] + Upto(n + 1)[n + 1]
    <3> DEFINE S1 == 1..Len(members)
               f == Upto(n)
               g == Upto(n + 1)
    <3>1. PICK y \in S1 : y = n + 1
      BY <2>1
    <3>2. /\ f \in [S1 -> Int] /\ g \in [S1 -> Int]
          /\ \A i \in S1 \ {y} : f[i] = g[i]
      BY <2>2, <2>4, <3>1
    <3>3. IsFiniteSet(S1)
      BY <1>2
    <3> HIDE DEF f, g, S1
    <3>4. SumFunction(g) = SumFunction(f) - f[y] + g[y]
      BY <3>2, <3>3, SumChanges
    <3>5. QED
      BY <3>1, <3>4 DEF f, g
  <2>6. SumFunction(Upto(n)) \in Nat
    BY <1>4 DEF ImagesUpTo
  <2>7. SumFunction(Upto(n + 1)) = SumFunction(Upto(n)) + members[n + 1].images
    BY <1>1, <2>1, <2>3, <2>5, <2>6
  <2>8. QED
    BY <2>7 DEF ImagesUpTo
<1>7. Upto(Len(members)) = [i \in 1..Len(members) |-> members[i].images]
  BY <1>1
<1>8. QED
  BY <1>4, <1>5, <1>6, <1>7 DEF ImagesUpTo

(* What inspect_request has found in the members so far, and what it made  *)
(* of them in the end.                                                     *)
FieldsFound ==
  /\ DOMAIN captured \subseteq Anthropic!FieldNames
  /\ \A name \in DOMAIN captured : \E i \in 1..position :
       input[i].name = name /\ captured[name] = input[i]
  /\ \A i \in 1..position : input[i].name \in Anthropic!FieldNames =>
       input[i].name \in DOMAIN captured /\ captured[input[i].name] = input[i]
  /\ "max_tokens" \in DOMAIN captured => captured["max_tokens"].kind = "number"

AnthropicInv ==
  /\ input \in Seq(AnthropicMembers) /\ position \in 0..Len(input)
  /\ Len(input) <= size
  /\ spooled \in Nat
  /\ images = ImagesUpTo(input, position)
  /\ FieldsFound
  /\ result \in {"inspecting", "ok"} => Len(input) <= spooled
  /\ result = "ok" => /\ position = Len(input)
                      /\ Anthropic!MaxTokens > 0
                      /\ budget = Anthropic!Sum

LEMMA AnthropicMemberTyped ==
  ASSUME NEW member \in AnthropicMembers
  PROVE  /\ member.number \in Nat /\ member.images \in Nat
         /\ member.kind \in {"number", "true", "false"} => member.images = 0
BY PreparationAssumption

LEMMA AnthropicStarts ==
  ASSUME PrepareInit, route = "anthropic"
  PROVE  AnthropicInv
<1>1. /\ input \in Seq(AnthropicMembers) /\ position = 0 /\ spooled = 0
      /\ images = 0 /\ DOMAIN captured = {} /\ result = "spooling"
      /\ size \in Len(input)..Smaller(Len(input) + 1, MaxSections)
  BY BodyTyped DEF PrepareInit, Anthropic!Init
<1>2. Len(input) \in Nat /\ Len(input) <= size
  BY <1>1
<1>3. ImagesUpTo(input, 0) = 0
  <2>1. /\ \A member \in AnthropicMembers : member.images \in Nat
        /\ 0 \in 0..Len(input)
    BY <1>2, AnthropicMemberTyped
  <2>2. QED
    BY <1>1, <2>1, ImagesAdd
<1>4. QED
  BY <1>1, <1>2, <1>3 DEF AnthropicInv, FieldsFound

(* A member that is read is found, or counted.                             *)
LEMMA FieldKeepsInv ==
  ASSUME AnthropicInv, Anthropic!ReadField, UNCHANGED <<size, route>>
  PROVE  AnthropicInv'
<1> DEFINE member == input[position + 1]
<1>1. /\ position < Len(input) /\ position' = position + 1
      /\ member.name \in Anthropic!FieldNames
      /\ member.name \notin DOMAIN captured
      /\ member.name = "max_tokens" => member.kind = "number"
      /\ captured' = [name \in DOMAIN captured \cup {member.name} |->
                        IF name = member.name THEN member ELSE captured[name]]
      /\ UNCHANGED <<input, spooled, images, result, budget>>
      /\ result = "inspecting"
  BY DEF Anthropic!ReadField, Anthropic!Inspecting, Anthropic!IsField,
         Anthropic!Found, Anthropic!ValueIsFine, Anthropic!Current
<1>2. /\ input \in Seq(AnthropicMembers) /\ position \in Nat /\ Len(input) \in Nat
      /\ position + 1 \in 0..Len(input)
  BY <1>1 DEF AnthropicInv
<1>3. /\ member.images = 0 /\ member \in AnthropicMembers
      /\ ImagesUpTo(input, position + 1) = ImagesUpTo(input, position)
  <2>1. member \in AnthropicMembers
    BY <1>1, <1>2
  <2>2. member.images = 0
    BY <2>1, AnthropicMemberTyped
       DEF Anthropic!ReadField, Anthropic!ValueIsFine, Anthropic!Current
  <2>3. /\ ImagesUpTo(input, position) \in Nat
        /\ ImagesUpTo(input, position + 1) = ImagesUpTo(input, position) + member.images
    BY <1>1, <1>2, ImagesAdd, AnthropicMemberTyped DEF AnthropicInv
  <2>4. QED
    BY <2>1, <2>2, <2>3
<1>4. FieldsFound'
  <2>1. FieldsFound
    BY DEF AnthropicInv
  <2>2. DOMAIN captured' = DOMAIN captured \cup {member.name}
    BY <1>1
  <2>3. ASSUME NEW name \in DOMAIN captured'
        PROVE  \E i \in 1..position' : input[i].name = name /\ captured'[name] = input[i]
    <3>1. CASE name = member.name
      <4>1. position + 1 \in 1..position' /\ captured'[name] = member
        BY <1>1, <1>2, <3>1
      <4>2. QED
        BY <3>1, <4>1
    <3>2. CASE name # member.name
      <4>1. name \in DOMAIN captured /\ captured'[name] = captured[name]
        BY <1>1, <2>2, <3>2
      <4>2. PICK i \in 1..position : input[i].name = name /\ captured[name] = input[i]
        BY <2>1, <4>1 DEF FieldsFound
      <4>3. i \in 1..position'
        BY <1>1, <1>2
      <4>4. QED
        BY <4>1, <4>2, <4>3
    <3>3. QED
      BY <3>1, <3>2
  <2>4. ASSUME NEW i \in 1..position', input[i].name \in Anthropic!FieldNames
        PROVE  input[i].name \in DOMAIN captured' /\ captured'[input[i].name] = input[i]
    <3>1. CASE i = position + 1
      BY <1>1, <3>1
    <3>2. CASE i # position + 1
      <4>1. i \in 1..position
        BY <1>1, <1>2, <3>2
      <4>2. input[i].name \in DOMAIN captured /\ captured[input[i].name] = input[i]
        BY <2>1, <2>4, <4>1 DEF FieldsFound
      <4>3. QED
        BY <1>1, <4>2
    <3>3. QED
      BY <3>1, <3>2
  <2>5. "max_tokens" \in DOMAIN captured' => captured'["max_tokens"].kind = "number"
    BY <1>1, <2>1 DEF FieldsFound
  <2>6. DOMAIN captured' \subseteq Anthropic!FieldNames
    BY <1>1, <2>1, <2>2 DEF FieldsFound
  <2>7. input' = input
    BY <1>1
  <2>8. QED
    BY <2>3, <2>4, <2>5, <2>6, <2>7 DEF FieldsFound
<1>5. QED
  BY <1>1, <1>2, <1>3, <1>4 DEF AnthropicInv

LEMMA CountKeepsInv ==
  ASSUME AnthropicInv, Anthropic!CountImages, UNCHANGED <<size, route>>
  PROVE  AnthropicInv'
<1> DEFINE member == input[position + 1]
<1>1. /\ position < Len(input) /\ position' = position + 1
      /\ member.name \notin Anthropic!FieldNames
      /\ images' = images + member.images
      /\ UNCHANGED <<input, spooled, captured, result, budget>>
      /\ result = "inspecting"
  BY DEF Anthropic!CountImages, Anthropic!Inspecting, Anthropic!IsField,
         Anthropic!Current
<1>2. /\ input \in Seq(AnthropicMembers) /\ position \in Nat /\ Len(input) \in Nat
      /\ position + 1 \in 0..Len(input)
  BY <1>1 DEF AnthropicInv
<1>3. images' = ImagesUpTo(input, position')
  BY <1>1, <1>2, ImagesAdd, AnthropicMemberTyped DEF AnthropicInv
<1>4. FieldsFound'
  <2>1. FieldsFound
    BY DEF AnthropicInv
  <2>2. \A i \in 1..position' : i \in 1..position \/ i = position + 1
    BY <1>1, <1>2
  <2>3. \A i \in 1..position : i \in 1..position'
    BY <1>1, <1>2
  <2>4. QED
    BY <1>1, <2>1, <2>2, <2>3 DEF FieldsFound
<1>5. QED
  BY <1>1, <1>2, <1>3, <1>4 DEF AnthropicInv

(* A budget is made at the end of the members, with an output bound.       *)
LEMMA InspectKeepsInv ==
  ASSUME AnthropicInv, Anthropic!Inspect, UNCHANGED <<size, route>>
  PROVE  AnthropicInv'
<1>1. CASE \/ Anthropic!RejectField \/ Anthropic!NotJson
           \/ Anthropic!NoMaxTokens \/ Anthropic!SeekFails
  BY <1>1 DEF Anthropic!RejectField, Anthropic!NotJson, Anthropic!NoMaxTokens,
              Anthropic!SeekFails, Anthropic!Fail, AnthropicInv, FieldsFound
<1>2. CASE Anthropic!Finish
  <2>1. /\ position = Len(input) /\ result = "inspecting" /\ Anthropic!MaxTokens > 0
        /\ UNCHANGED <<input, spooled, position, captured, images>>
        /\ \/ result' = "TokenBudgetOverflow"
           \/ result' = "ok" /\ budget' = Anthropic!Sum
    BY <1>2 DEF Anthropic!Finish, Anthropic!AtEnd, Anthropic!Fail
  <2>2. UNCHANGED <<Anthropic!MaxTokens, Anthropic!Sum>>
    BY <2>1 DEF Anthropic!MaxTokens, Anthropic!Sum, Anthropic!Found
  <2>3. QED
    BY <2>1, <2>2 DEF AnthropicInv, FieldsFound
<1>3. QED
  BY <1>1, <1>2, FieldKeepsInv, CountKeepsInv DEF Anthropic!Inspect

LEMMA AnthropicKept ==
  ASSUME PreparationInv, AnthropicInv, AnthropicStep
  PROVE  AnthropicInv'
<1>1. UNCHANGED <<size, route>>
  BY DEF AnthropicStep, vars
<1>2. CASE Anthropic!SpoolIsFull(read) \/ Anthropic!SpoolFails
  BY <1>1, <1>2 DEF Anthropic!SpoolIsFull, Anthropic!SpoolFails, Anthropic!Fail,
     AnthropicInv, FieldsFound
<1>3. CASE reader = "eof" /\ Anthropic!Spool(read)
  BY <1>1, <1>3 DEF Anthropic!Spool, AnthropicInv, FieldsFound, PreparationInv,
     UploadInv
<1>4. QED
  BY <1>1, <1>2, <1>3, InspectKeepsInv DEF AnthropicStep

LEMMA NextKeepsAnthropicInv ==
  ASSUME PreparationInv, route = "anthropic" => AnthropicInv, [PrepareNext]_allVars
  PROVE  (route = "anthropic" => AnthropicInv)'
<1> SUFFICES ASSUME route' = "anthropic" PROVE AnthropicInv'
  OBVIOUS
<1>1. ASSUME UNCHANGED <<size, route, workerVars>>
      PROVE  AnthropicInv'
  BY <1>1 DEF workerVars, AnthropicInv, FieldsFound, Anthropic!MaxTokens,
     Anthropic!Sum, Anthropic!Found
<1>2. CASE UploadStep
  <2>1. size' = size
    BY <1>2 DEF UploadStep, PumpNext, TopOfLoop, ChunkArrives, BodyEnds,
                BodyFails, BodyTimesOut, SendSection, SendRefused,
                SendTimesOut, Return, DeadlinePasses, Start
  <2>2. QED
    BY <1>1, <1>2, <2>1 DEF UploadStep
<1>3. CASE WorkerReads
  BY <1>1, <1>3 DEF WorkerReads, ReadSection, ReadEnd
<1>4. CASE OpenAiStep
  BY <1>4 DEF OpenAiStep
<1>5. CASE AnthropicStep
  BY <1>5, AnthropicKept DEF AnthropicStep
<1>6. CASE WorkerGivesUp
  BY <1>1, <1>6 DEF WorkerGivesUp, GiveUp
<1>7. CASE UNCHANGED allVars
  BY <1>1, <1>7 DEF allVars, vars
<1>8. QED
  BY <1>2, <1>3, <1>4, <1>5, <1>6, <1>7 DEF PrepareNext, WorkerNext

LEMMA SpecKeepsAnthropicInv == PrepareSpec => [](route = "anthropic" => AnthropicInv)
<1>1. PrepareInit => (route = "anthropic" => AnthropicInv)
  BY AnthropicStarts
<1>2. PreparationInv /\ (route = "anthropic" => AnthropicInv) /\ [PrepareNext]_allVars
        => (route = "anthropic" => AnthropicInv)'
  BY NextKeepsAnthropicInv
<1>3. QED
  BY <1>1, <1>2, SpecKeepsInv, PTL DEF PrepareSpec

LEMMA AnthropicAgrees ==
  ASSUME AnthropicInv PROVE Anthropic!ProviderReadsTheSame
<1> SUFFICES ASSUME result = "ok" PROVE Anthropic!ProviderReadsTheSame
  BY DEF Anthropic!ProviderReadsTheSame
<1>1. /\ input \in Seq(AnthropicMembers) /\ position = Len(input) /\ FieldsFound
      /\ Anthropic!MaxTokens > 0
  BY DEF AnthropicInv
<1>2. \A name \in Anthropic!FieldNames : \A member \in Anthropic!Sent(name) :
        name \in DOMAIN captured /\ member = captured[name]
  BY <1>1 DEF FieldsFound, Anthropic!Sent
<1>3. \A name \in DOMAIN captured : captured[name] \in Anthropic!Sent(name)
  BY <1>1 DEF FieldsFound, Anthropic!Sent
<1>4. "max_tokens" \in DOMAIN captured /\ Anthropic!MaxTokens = captured["max_tokens"].number
  BY <1>1 DEF Anthropic!MaxTokens, Anthropic!Found
<1>5. captured["max_tokens"].kind = "number"
  BY <1>1, <1>4 DEF FieldsFound
<1>6. \A member \in Anthropic!Sent("stream") :
        (member.kind = "true") = Anthropic!Streaming
  BY <1>2 DEF Anthropic!Streaming, Anthropic!Found, Anthropic!FieldNames
<1>7. Anthropic!Sent("stream") = {} => ~Anthropic!Streaming
  BY <1>3 DEF Anthropic!Streaming, Anthropic!Found
<1>8. QED
  BY <1>2, <1>3, <1>4, <1>5, <1>6, <1>7
     DEF Anthropic!ProviderReadsTheSame, Anthropic!FieldNames

LEMMA AnthropicCovers ==
  ASSUME AnthropicInv PROVE Anthropic!BudgetCoversTheRequest
<1> SUFFICES ASSUME result = "ok" PROVE Anthropic!BudgetCoversTheRequest
  BY DEF Anthropic!BudgetCoversTheRequest
<1> DEFINE pictures == SumFunction([i \in 1..Len(input) |-> input[i].images])
           bound == CHOOSE member \in Anthropic!Sent("max_tokens") : TRUE
           reserve == pictures * ImageReserve
<1>1. /\ input \in Seq(AnthropicMembers) /\ Len(input) \in Nat
      /\ spooled \in Nat /\ Len(input) <= spooled
      /\ budget = Anthropic!Sum
  BY DEF AnthropicInv
<1>2. pictures \in Nat /\ images = pictures
  <2>1. position = Len(input) /\ images = ImagesUpTo(input, position)
    BY DEF AnthropicInv
  <2>2. /\ \A member \in AnthropicMembers : member.images \in Nat
        /\ Len(input) \in 0..Len(input)
    BY <1>1, AnthropicMemberTyped
  <2>3. QED
    BY <1>1, <2>1, <2>2, ImagesAdd
<1>3. bound \in Anthropic!Sent("max_tokens") /\ bound.number = Anthropic!MaxTokens
  BY AnthropicAgrees DEF Anthropic!ProviderReadsTheSame
<1>4. bound.number \in Nat
  BY <1>1, <1>3, AnthropicMemberTyped DEF Anthropic!Sent
<1>5. budget = spooled + reserve + bound.number
  BY <1>1, <1>2, <1>3 DEF Anthropic!Sum
<1>6. reserve \in Nat
  BY <1>2, PreparationAssumption
<1>7. Anthropic!SumFunction([i \in 1..Len(input) |-> input[i].images]) = pictures
  BY SumsAreOne
<1> HIDE DEF bound, reserve, pictures
<1>8. budget >= Len(input) + reserve + bound.number
  BY <1>1, <1>4, <1>5, <1>6
<1>9. QED
  BY <1>7, <1>8 DEF Anthropic!BudgetCoversTheRequest, bound, reserve

(* An Anthropic body is forwarded unchanged, and whichever member of a     *)
(* name the provider takes, inspect_request has read the same in it.       *)
THEOREM AnthropicAlwaysReadsTheSame == PrepareSpec => []AnthropicReadsTheSame
<1>1. (route = "anthropic" => AnthropicInv) => AnthropicReadsTheSame
  BY AnthropicAgrees DEF AnthropicReadsTheSame
<1>2. QED
  BY <1>1, SpecKeepsAnthropicInv, PTL

(* The budget of an Anthropic request is never less than its bytes, the    *)
(* reserve of its images and its whole output, with or without white space *)
(* after the object.                                                       *)
THEOREM AnthropicBudgetAlwaysCovers == PrepareSpec => []AnthropicBudgetCovers
<1>1. (route = "anthropic" => AnthropicInv) => AnthropicBudgetCovers
  BY AnthropicCovers DEF AnthropicBudgetCovers
<1>2. QED
  BY <1>1, SpecKeepsAnthropicInv, PTL

-----------------------------------------------------------------------------
(* What an OpenAI request is transformed to.                               *)

(* The members that may be read or written; the provers do not know that   *)
(* the names and kinds the gateway writes are strings.                     *)
MemberNames == STRING \cup OpenAi!ControlNames
ValueKinds == STRING \cup {"usage", "number"}
MemberRecord == [name: MemberNames, kind: ValueKinds, number: Nat, images: Nat]

(* The members of one name, as the provider may take any of them.          *)
Named(members, name) ==
  {members[i] : i \in {i \in 1..Len(members) : members[i].name = name}}

LEMMA NamedIn ==
  ASSUME NEW s, NEW name, NEW member
  PROVE  member \in Named(s, name) <=>
           \E i \in 1..Len(s) : s[i] = member /\ member.name = name
BY DEF Named

LEMMA NamedJoin ==
  ASSUME NEW T, NEW s \in Seq(T), NEW t \in Seq(T), NEW name
  PROVE  /\ s \o t \in Seq(T)
         /\ Named(s \o t, name) = Named(s, name) \cup Named(t, name)
<1> DEFINE m == Len(s)
           n == Len(t)
           r == s \o t
<1>1. /\ r \in Seq(T) /\ m \in Nat /\ n \in Nat /\ Len(r) = m + n
      /\ \A i \in 1..m : r[i] = s[i]
      /\ \A i \in (m + 1)..(m + n) : r[i] = t[i - m]
  OBVIOUS
<1>2. \A member : member \in Named(r, name) <=>
        \E i \in 1..Len(r) : r[i] = member /\ member.name = name
  BY NamedIn
<1>3. \A member : member \in Named(s, name) <=>
        \E i \in 1..m : s[i] = member /\ member.name = name
  BY NamedIn
<1>4. \A member : member \in Named(t, name) <=>
        \E i \in 1..n : t[i] = member /\ member.name = name
  BY NamedIn
<1> HIDE DEF m, n, r
<1>5. \A i \in 1..(m + n) : i \in 1..m \/ (i \in (m + 1)..(m + n) /\ i - m \in 1..n)
  BY <1>1
<1>6. \A i \in 1..m : i \in 1..(m + n)
  BY <1>1
<1>7. \A i \in 1..n :
        i + m \in (m + 1)..(m + n) /\ i + m \in 1..(m + n) /\ (i + m) - m = i
  BY <1>1
<1>8. ASSUME NEW member
      PROVE  member \in Named(r, name) <=>
               member \in Named(s, name) \/ member \in Named(t, name)
  <2>1. ASSUME NEW i \in 1..(m + n), r[i] = member
        PROVE  (\E j \in 1..m : s[j] = member) \/ (\E j \in 1..n : t[j] = member)
    BY <1>1, <1>5, <2>1
  <2>2. ASSUME NEW i \in 1..m PROVE \E j \in 1..(m + n) : r[j] = s[i]
    BY <1>1, <1>6
  <2>3. ASSUME NEW i \in 1..n PROVE \E j \in 1..(m + n) : r[j] = t[i]
    BY <1>1, <1>7
  <2>4. member \in Named(r, name) <=>
          \E i \in 1..(m + n) : r[i] = member /\ member.name = name
    BY <1>1, <1>2
  <2>5. QED
    BY <1>3, <1>4, <2>1, <2>2, <2>3, <2>4
<1>9. QED
  BY <1>1, <1>8 DEF r

LEMMA NamedWhen ==
  ASSUME NEW T, NEW condition \in BOOLEAN, NEW member, condition => member \in T,
         NEW name
  PROVE  /\ OpenAi!When(condition, member) \in Seq(T)
         /\ Named(OpenAi!When(condition, member), name) =
              IF condition /\ member.name = name THEN {member} ELSE {}
BY DEF OpenAi!When, Named

(* How many of the members are not control members grows with each that is *)
(* not.                                                                    *)
LEMMA CardinalitiesAreOne ==
  ASSUME NEW S PROVE OpenAi!Cardinality(S) = Cardinality(S)
BY DEF Cardinality, OpenAi!Cardinality

LEMMA OthersAdd ==
  ASSUME NEW members, NEW n \in Nat
  PROVE  /\ OpenAi!Others(members, n) \in Nat
         /\ OpenAi!Others(members, 0) = 0
         /\ OpenAi!Others(members, n + 1) =
              IF members[n + 1].name \in OpenAi!ControlNames
              THEN OpenAi!Others(members, n) ELSE OpenAi!Others(members, n) + 1
<1> DEFINE these(k) == {i \in 1..k : members[i].name \notin OpenAi!ControlNames}
<1>1. IsFiniteSet(1..n)
  BY FS_Interval
<1>2. IsFiniteSet(these(n))
  BY <1>1, FS_Subset
<1>3. Cardinality(these(n)) \in Nat
  BY <1>2, FS_CardinalityType
<1>4. these(0) = {} /\ Cardinality({}) = 0
  BY FS_EmptySet
<1>5. n + 1 \notin these(n)
  OBVIOUS
<1>6. these(n + 1) = IF members[n + 1].name \in OpenAi!ControlNames
                     THEN these(n) ELSE these(n) \cup {n + 1}
  <2>1. \A i : i \in 1..(n + 1) <=> i \in 1..n \/ i = n + 1
    OBVIOUS
  <2>2. QED
    BY <2>1
<1>7. Cardinality(these(n) \cup {n + 1}) = Cardinality(these(n)) + 1
  BY <1>2, <1>5, FS_AddElement
<1>8. QED
  BY <1>3, <1>4, <1>6, <1>7, CardinalitiesAreOne DEF OpenAi!Others

(* Where the control members begin, there are no others.                   *)
LEMMA OthersFirst ==
  ASSUME NEW T, NEW s \in Seq(T), NEW t \in Seq(T),
         \A i \in 1..Len(s) : s[i].name \notin OpenAi!ControlNames,
         \A i \in 1..Len(t) : t[i].name \in OpenAi!ControlNames
  PROVE  OpenAi!Others(s \o t, Len(s \o t)) = Len(s)
<1> DEFINE m == Len(s)
           n == Len(t)
           r == s \o t
<1>1. /\ m \in Nat /\ n \in Nat /\ Len(r) = m + n
      /\ \A i \in 1..m : r[i] = s[i]
      /\ \A i \in (m + 1)..(m + n) : r[i] = t[i - m]
  OBVIOUS
<1>2. /\ \A i \in 1..m : s[i].name \notin OpenAi!ControlNames
      /\ \A i \in 1..n : t[i].name \in OpenAi!ControlNames
  OBVIOUS
<1> HIDE DEF m, n, r
<1>3. /\ \A i \in 1..(m + n) :
           i \in 1..m \/ (i \in (m + 1)..(m + n) /\ i - m \in 1..n /\ i \notin 1..m)
      /\ \A i \in 1..m : i \in 1..(m + n)
  BY <1>1
<1>4. {i \in 1..Len(r) : r[i].name \notin OpenAi!ControlNames} = 1..m
  <2>1. \A i \in 1..(m + n) : r[i].name \notin OpenAi!ControlNames <=> i \in 1..m
    BY <1>1, <1>2, <1>3
  <2>2. QED
    BY <1>1, <1>3, <2>1
<1>5. Cardinality(1..m) = m
  BY <1>1, FS_Interval
<1>6. OpenAi!Others(r, Len(r)) = m
  BY <1>4, <1>5, CardinalitiesAreOne DEF OpenAi!Others
<1>7. QED
  BY <1>6 DEF m, r

(* What was copied is the other members read so far, in their places.      *)
Copied ==
  /\ \A i \in 1..Len(out) : out[i].name \notin OpenAi!ControlNames
  /\ Len(out) = OpenAi!Others(input, position)
  /\ \A i \in 1..position : input[i].name \notin OpenAi!ControlNames =>
       /\ OpenAi!Others(input, i) \in 1..Len(out)
       /\ out[OpenAi!Others(input, i)] = input[i]

(* The members read so far: the control members by their names, the others *)
(* written; and in the end what the provider makes of them.                *)
OpenAiInv ==
  /\ input \in Seq(OpenAiMembers) /\ position \in 0..Len(input)
  /\ DOMAIN captured \subseteq OpenAi!ControlNames
  /\ \A name \in DOMAIN captured :
       captured[name] \in MemberRecord /\ captured[name].name = name
  /\ \A i \in 1..position : input[i].name \in OpenAi!ControlNames =>
       input[i].name \in DOMAIN captured /\ captured[input[i].name] = input[i]
  /\ out \in Seq(MemberRecord)
  /\ result = "reading" => Copied
  /\ OpenAi!ProviderStreamsWithUsage
  /\ OpenAi!ProviderBoundIsBudgeted
  /\ OpenAi!RestIsUntouched

LEMMA OpenAiStarts ==
  ASSUME PrepareInit, route = "openai"
  PROVE  OpenAiInv
<1>1. /\ input \in Seq(OpenAiMembers) /\ position = 0 /\ out = <<>>
      /\ DOMAIN captured = {} /\ result = "reading"
  BY BodyTyped DEF PrepareInit, OpenAi!Init
<1>2. out \in Seq(MemberRecord) /\ Len(out) = 0 /\ position \in 0..Len(input)
  BY <1>1
<1>3. OpenAi!Others(input, 0) = 0
  BY OthersAdd, 0 \in Nat
<1>4. QED
  BY <1>1, <1>2, <1>3 DEF OpenAiInv, Copied, OpenAi!ProviderStreamsWithUsage,
     OpenAi!ProviderBoundIsBudgeted, OpenAi!RestIsUntouched

(* Each control name is written at most once, the bound always.            *)
WrittenRight(members) ==
  /\ members \in Seq(MemberRecord)
  /\ Named(members, "stream") =
       IF OpenAi!Captured("stream") THEN {captured["stream"]} ELSE {}
  /\ OpenAi!Streaming =>
       Named(members, "stream_options") = {OpenAi!ForceUsageOption}
  /\ ~OpenAi!Streaming =>
       Named(members, "stream_options") =
         IF OpenAi!Captured("stream_options") THEN {captured["stream_options"]} ELSE {}
  /\ Named(members, "max_completion_tokens") =
       IF OpenAi!Captured("max_completion_tokens")
       THEN {captured["max_completion_tokens"]}
       ELSE IF OpenAi!LimitNames = {}
       THEN {OpenAi!Member("max_completion_tokens", OpenAi!Number(DefaultLimit))}
       ELSE {}
  /\ Named(members, "max_tokens") =
       IF OpenAi!Captured("max_tokens") THEN {captured["max_tokens"]} ELSE {}
  /\ \E controls \in Seq(MemberRecord) :
       /\ members = out \o controls
       /\ \A i \in 1..Len(controls) : controls[i].name \in OpenAi!ControlNames

LEMMA MemberWritten ==
  ASSUME NEW name \in MemberNames, NEW kind \in ValueKinds, NEW n \in Nat
  PROVE  /\ OpenAi!Member(name, [kind |-> kind, number |-> n]) \in MemberRecord
         /\ OpenAi!Member(name, [kind |-> kind, number |-> n]).name = name
         /\ OpenAi!Member(name, [kind |-> kind, number |-> n]).kind = kind
         /\ OpenAi!Member(name, [kind |-> kind, number |-> n]).number = n
BY DEF OpenAi!Member, MemberRecord

LEMMA UsageOptionWritten ==
  ASSUME OpenAiInv
  PROVE  /\ OpenAi!ForceUsageOption \in MemberRecord
         /\ OpenAi!ForceUsageOption.name = "stream_options"
         /\ OpenAi!ForceUsageOption.kind = "usage"
<1>1. CASE ~OpenAi!Captured("stream_options") \/ captured["stream_options"].kind = "null"
  <2>1. OpenAi!ForceUsageOption =
          OpenAi!Member("stream_options", [kind |-> "usage", number |-> 0])
    BY <1>1 DEF OpenAi!ForceUsageOption
  <2>2. QED
    BY <2>1, MemberWritten, "stream_options" \in MemberNames, "usage" \in ValueKinds
       DEF MemberNames, ValueKinds, OpenAi!ControlNames
<1>2. CASE OpenAi!Captured("stream_options") /\ captured["stream_options"].kind # "null"
  <2>1. /\ captured["stream_options"] \in MemberRecord
        /\ captured["stream_options"].name = "stream_options"
    BY <1>2 DEF OpenAiInv, OpenAi!Captured
  <2>2. OpenAi!ForceUsageOption = [captured["stream_options"] EXCEPT !.kind = "usage"]
    BY <1>2 DEF OpenAi!ForceUsageOption
  <2>3. QED
    BY <2>1, <2>2 DEF MemberRecord, ValueKinds
<1>3. QED
  BY <1>1, <1>2

LEMMA ControlsWritten ==
  ASSUME OpenAiInv, OpenAi!AtEnd, OpenAi!StreamOptionsAreFine
  PROVE  WrittenRight(OpenAi!Written)
<1> DEFINE T == MemberRecord
           usage == OpenAi!ForceUsageOption
           default == OpenAi!Member("max_completion_tokens",
                                    OpenAi!Number(OpenAi!MaxOutputTokens))
           none == OpenAi!LimitNames = {}
           c1 == OpenAi!Captured("stream")
           c2 == OpenAi!Captured("stream_options")
           c3 == OpenAi!Captured("max_completion_tokens")
           c5 == OpenAi!Captured("max_tokens")
           w1 == OpenAi!When(c1, captured["stream"])
           w2 == IF OpenAi!Streaming THEN <<usage>>
                 ELSE OpenAi!When(c2, captured["stream_options"])
           w3 == OpenAi!When(c3, captured["max_completion_tokens"])
           w4 == OpenAi!When(none, default)
           w5 == OpenAi!When(c5, captured["max_tokens"])
           controls == w1 \o w2 \o w3 \o w4 \o w5
<1>1. OpenAi!Written = out \o controls
  BY DEF OpenAi!Written, OpenAi!ControlMembers
<1>2. \A name \in DOMAIN captured :
        captured[name] \in T /\ captured[name].name = name
  BY DEF OpenAiInv
<1>3. usage \in T /\ usage.name = "stream_options"
  BY UsageOptionWritten
<1>4. none => /\ default \in T /\ default.name = "max_completion_tokens"
              /\ default = OpenAi!Member("max_completion_tokens",
                                         OpenAi!Number(DefaultLimit))
  <2> SUFFICES ASSUME none
               PROVE  /\ default \in T /\ default.name = "max_completion_tokens"
                      /\ default = OpenAi!Member("max_completion_tokens",
                                                 OpenAi!Number(DefaultLimit))
    OBVIOUS
  <2>1. default = OpenAi!Member("max_completion_tokens", OpenAi!Number(DefaultLimit))
    BY DEF OpenAi!MaxOutputTokens
  <2>2. DefaultLimit \in Nat
    BY PreparationAssumption
  <2>3. default \in T /\ default.name = "max_completion_tokens"
    BY <2>1, <2>2, MemberWritten, "number" \in ValueKinds,
       "max_completion_tokens" \in MemberNames
       DEF OpenAi!Number, MemberNames, ValueKinds, OpenAi!ControlNames
  <2>4. QED
    BY <2>1, <2>3
<1>5. /\ c1 \in BOOLEAN /\ c2 \in BOOLEAN /\ c3 \in BOOLEAN /\ none \in BOOLEAN
      /\ c5 \in BOOLEAN
  BY DEF OpenAi!Captured
<1>6. /\ c1 => captured["stream"] \in T /\ captured["stream"].name = "stream"
      /\ c2 => /\ captured["stream_options"] \in T
               /\ captured["stream_options"].name = "stream_options"
      /\ c3 => /\ captured["max_completion_tokens"] \in T
               /\ captured["max_completion_tokens"].name = "max_completion_tokens"
      /\ c5 => captured["max_tokens"] \in T /\ captured["max_tokens"].name = "max_tokens"
  BY <1>2 DEF OpenAi!Captured
<1> HIDE DEF T, usage, default, none, c1, c2, c3, c5
<1>7. /\ out \in Seq(T)
      /\ \A name \in OpenAi!ControlNames : Named(out, name) = {}
  BY DEF OpenAiInv, Copied, OpenAi!AtEnd, Named, T
<1>8. ASSUME NEW name
      PROVE  /\ w1 \in Seq(T)
             /\ Named(w1, name) =
                  IF c1 /\ name = "stream" THEN {captured["stream"]} ELSE {}
  BY <1>5, <1>6, NamedWhen
<1>9. ASSUME NEW name
      PROVE  /\ w2 \in Seq(T)
             /\ name # "stream_options" => Named(w2, name) = {}
             /\ OpenAi!Streaming /\ name = "stream_options" => Named(w2, name) = {usage}
             /\ ~OpenAi!Streaming /\ name = "stream_options" =>
                  Named(w2, name) = IF c2 THEN {captured["stream_options"]} ELSE {}
  <2>1. CASE OpenAi!Streaming
    <3>1. w2 = OpenAi!When(TRUE, usage)
      BY <2>1 DEF OpenAi!When
    <3>2. /\ OpenAi!When(TRUE, usage) \in Seq(T)
          /\ Named(OpenAi!When(TRUE, usage), name) =
               IF TRUE /\ usage.name = name THEN {usage} ELSE {}
      BY <1>3, NamedWhen, TRUE \in BOOLEAN
    <3> HIDE DEF w2
    <3>3. QED
      BY <1>3, <2>1, <3>1, <3>2
  <2>2. CASE ~OpenAi!Streaming
    <3>1. w2 = OpenAi!When(c2, captured["stream_options"])
      BY <2>2
    <3>2. /\ OpenAi!When(c2, captured["stream_options"]) \in Seq(T)
          /\ Named(OpenAi!When(c2, captured["stream_options"]), name) =
               IF c2 /\ captured["stream_options"].name = name
               THEN {captured["stream_options"]} ELSE {}
      BY <1>5, <1>6, NamedWhen
    <3> HIDE DEF w2
    <3>3. QED
      BY <1>6, <2>2, <3>1, <3>2
  <2>3. QED
    BY <2>1, <2>2
<1>10. ASSUME NEW name
       PROVE  /\ w3 \in Seq(T)
              /\ Named(w3, name) = IF c3 /\ name = "max_completion_tokens"
                                   THEN {captured["max_completion_tokens"]} ELSE {}
  BY <1>5, <1>6, NamedWhen
<1>11. ASSUME NEW name
       PROVE  /\ w4 \in Seq(T)
              /\ Named(w4, name) =
                   IF none /\ name = "max_completion_tokens" THEN {default} ELSE {}
  BY <1>4, <1>5, NamedWhen
<1>12. ASSUME NEW name
       PROVE  /\ w5 \in Seq(T)
              /\ Named(w5, name) =
                   IF c5 /\ name = "max_tokens" THEN {captured["max_tokens"]} ELSE {}
  BY <1>5, <1>6, NamedWhen
<1>13. controls = w1 \o w2 \o w3 \o w4 \o w5
  OBVIOUS
<1> HIDE DEF w1, w2, w3, w4, w5, controls
<1>14. ASSUME NEW name
       PROVE  /\ controls \in Seq(T)
              /\ Named(controls, name) =
                   Named(w1, name) \cup Named(w2, name) \cup Named(w3, name)
                     \cup Named(w4, name) \cup Named(w5, name)
  <2> DEFINE w12 == w1 \o w2
             w123 == w12 \o w3
             w1234 == w123 \o w4
             all == w1234 \o w5
  <2>1. w12 \in Seq(T) /\ Named(w12, name) = Named(w1, name) \cup Named(w2, name)
    BY <1>8, <1>9, NamedJoin
  <2> HIDE DEF w12
  <2>2. w123 \in Seq(T) /\ Named(w123, name) = Named(w12, name) \cup Named(w3, name)
    BY <1>10, <2>1, NamedJoin
  <2> HIDE DEF w123
  <2>3. w1234 \in Seq(T) /\ Named(w1234, name) = Named(w123, name) \cup Named(w4, name)
    BY <1>11, <2>2, NamedJoin
  <2> HIDE DEF w1234
  <2>4. all \in Seq(T) /\ Named(all, name) = Named(w1234, name) \cup Named(w5, name)
    BY <1>12, <2>3, NamedJoin
  <2>5. controls = all
    BY <1>13 DEF w12, w123, w1234
  <2> HIDE DEF all
  <2>6. QED
    BY <2>1, <2>2, <2>3, <2>4, <2>5
<1>15. ASSUME NEW name
       PROVE  /\ OpenAi!Written \in Seq(T)
              /\ Named(OpenAi!Written, name) = Named(out, name) \cup Named(controls, name)
  BY <1>1, <1>7, <1>14, NamedJoin
<1>16. c3 => ~none
  BY DEF c3, none, OpenAi!Captured, OpenAi!LimitNames
<1>17. {"stream", "stream_options", "max_completion_tokens", "max_tokens"}
         \subseteq OpenAi!ControlNames
  BY DEF OpenAi!ControlNames
<1>18. /\ Named(OpenAi!Written, "stream") = IF c1 THEN {captured["stream"]} ELSE {}
       /\ OpenAi!Streaming => Named(OpenAi!Written, "stream_options") = {usage}
       /\ ~OpenAi!Streaming => Named(OpenAi!Written, "stream_options") =
                                IF c2 THEN {captured["stream_options"]} ELSE {}
  <2>1. Named(OpenAi!Written, "stream") = Named(controls, "stream")
    BY <1>7, <1>15, <1>17
  <2>2. Named(OpenAi!Written, "stream_options") = Named(controls, "stream_options")
    BY <1>7, <1>15, <1>17
  <2>3. Named(controls, "stream") = IF c1 THEN {captured["stream"]} ELSE {}
    BY <1>8, <1>9, <1>10, <1>11, <1>12, <1>14
  <2>4. Named(controls, "stream_options") = Named(w2, "stream_options")
    BY <1>8, <1>10, <1>11, <1>12, <1>14
  <2>5. QED
    BY <1>9, <2>1, <2>2, <2>3, <2>4
<1>19. /\ Named(OpenAi!Written, "max_completion_tokens") =
            IF c3 THEN {captured["max_completion_tokens"]}
            ELSE IF none THEN {default} ELSE {}
       /\ Named(OpenAi!Written, "max_tokens") =
            IF c5 THEN {captured["max_tokens"]} ELSE {}
  BY <1>7, <1>8, <1>9, <1>10, <1>11, <1>12, <1>16, <1>17, <1>14, <1>15
<1>20. ASSUME NEW i \in 1..Len(controls) PROVE controls[i].name \in OpenAi!ControlNames
  <2>1. controls[i] \in Named(controls, controls[i].name)
    BY DEF Named
  <2>2. ASSUME NEW name, name \notin OpenAi!ControlNames
        PROVE  Named(controls, name) = {}
    BY <1>8, <1>9, <1>10, <1>11, <1>12, <1>17, <1>14, <2>2
  <2>3. QED
    BY <2>1, <2>2
<1>21. \E c \in Seq(T) : /\ OpenAi!Written = out \o c
                         /\ \A i \in 1..Len(c) : c[i].name \in OpenAi!ControlNames
  BY <1>1, <1>20, <1>14
<1>22. QED
  BY <1>4, <1>18, <1>19, <1>15, <1>21
     DEF WrittenRight, T, usage, none, c1, c2, c3, c5

(* The end of the object: what is written is what the gateway has          *)
(* understood, and the budget is made of it.                               *)
LEMMA StreamsAsUnderstood ==
  ASSUME OpenAiInv, NEW members, WrittenRight(members)
  PROVE  /\ \A member \in Named(members, "stream") :
              OpenAi!IsTrue(member) = OpenAi!Streaming
         /\ OpenAi!Streaming =>
              /\ Named(members, "stream") # {}
              /\ \E option \in Named(members, "stream_options") :
                   Named(members, "stream_options") = {option} /\ option.kind = "usage"
<1>1. /\ Named(members, "stream") =
           IF OpenAi!Captured("stream") THEN {captured["stream"]} ELSE {}
      /\ OpenAi!Streaming =>
           Named(members, "stream_options") = {OpenAi!ForceUsageOption}
  BY DEF WrittenRight
<1>2. OpenAi!Streaming =
        (OpenAi!Captured("stream") /\ OpenAi!IsTrue(captured["stream"]))
  BY DEF OpenAi!Streaming
<1>3. OpenAi!IsTrue(captured["stream"]) \in BOOLEAN
  BY DEF OpenAi!IsTrue
<1>4. \A member \in Named(members, "stream") : OpenAi!IsTrue(member) = OpenAi!Streaming
  BY <1>1, <1>2, <1>3 DEF OpenAi!IsTrue, OpenAi!Captured
<1>5. OpenAi!Streaming => Named(members, "stream") # {}
  BY <1>1, <1>2
<1>6. OpenAi!ForceUsageOption.kind = "usage"
  BY UsageOptionWritten
<1>7. QED
  BY <1>1, <1>4, <1>5, <1>6

LEMMA BoundAsUnderstood ==
  ASSUME OpenAiInv, OpenAi!LimitIsFine, NEW members, WrittenRight(members)
  PROVE  LET newer == Named(members, "max_completion_tokens")
             older == Named(members, "max_tokens")
             bounds == IF newer # {} THEN newer ELSE older
         IN  /\ bounds # {}
             /\ \A member \in bounds :
                  member.kind = "number" /\ member.number = OpenAi!MaxOutputTokens
             /\ OpenAi!MaxOutputTokens \in Nat /\ OpenAi!MaxOutputTokens > 0
<1> DEFINE newer == Named(members, "max_completion_tokens")
           older == Named(members, "max_tokens")
           bounds == IF newer # {} THEN newer ELSE older
           limit == OpenAi!LimitMember
           default == OpenAi!Member("max_completion_tokens", OpenAi!Number(DefaultLimit))
<1>1. /\ newer = IF OpenAi!Captured("max_completion_tokens")
                 THEN {captured["max_completion_tokens"]}
                 ELSE IF OpenAi!LimitNames = {} THEN {default} ELSE {}
      /\ older = IF OpenAi!Captured("max_tokens") THEN {captured["max_tokens"]} ELSE {}
  BY DEF WrittenRight
<1>2. OpenAi!LimitNames = {} <=>
        ~OpenAi!Captured("max_completion_tokens") /\ ~OpenAi!Captured("max_tokens")
  BY DEF OpenAi!LimitNames, OpenAi!Captured
<1>3. CASE OpenAi!LimitNames = {}
  <2>1. bounds = {default}
    BY <1>1, <1>2, <1>3
  <2>2. OpenAi!MaxOutputTokens = DefaultLimit
    BY <1>3 DEF OpenAi!MaxOutputTokens
  <2>3. DefaultLimit \in Nat /\ DefaultLimit > 0
    BY PreparationAssumption
  <2>4. default.kind = "number" /\ default.number = DefaultLimit
    BY DEF OpenAi!Member, OpenAi!Number
  <2> HIDE DEF bounds, default
  <2>5. /\ bounds # {}
        /\ \A member \in bounds :
             member.kind = "number" /\ member.number = OpenAi!MaxOutputTokens
        /\ OpenAi!MaxOutputTokens \in Nat /\ OpenAi!MaxOutputTokens > 0
    BY <2>1, <2>2, <2>3, <2>4
  <2>6. QED
    BY <2>5 DEF bounds
<1>4. CASE OpenAi!LimitNames # {}
  <2>1. bounds = {limit}
    BY <1>1, <1>2, <1>4 DEF OpenAi!LimitMember
  <2>2. OpenAi!MaxOutputTokens = limit.number
    BY <1>4 DEF OpenAi!MaxOutputTokens
  <2>3. limit.kind = "number" /\ limit.number \in 1..MaxU64
    BY <1>4 DEF OpenAi!LimitIsFine, OpenAi!IsPositive
  <2>4. limit.number \in Nat /\ limit.number > 0
    BY <2>3, PreparationAssumption
  <2> HIDE DEF bounds, limit
  <2>5. /\ bounds # {}
        /\ \A member \in bounds :
             member.kind = "number" /\ member.number = OpenAi!MaxOutputTokens
        /\ OpenAi!MaxOutputTokens \in Nat /\ OpenAi!MaxOutputTokens > 0
    BY <2>1, <2>2, <2>3, <2>4
  <2>6. QED
    BY <2>5 DEF bounds
<1>5. QED
  BY <1>3, <1>4

LEMMA RestAsRead ==
  ASSUME OpenAiInv, OpenAi!AtEnd, NEW members, WrittenRight(members)
  PROVE  /\ \A i \in 1..Len(input) :
              input[i].name \notin OpenAi!ControlNames =>
                /\ OpenAi!Others(input, i) \in 1..Len(members)
                /\ members[OpenAi!Others(input, i)] = input[i]
         /\ OpenAi!Others(members, Len(members)) = OpenAi!Others(input, Len(input))
         /\ \A i \in 1..Len(input) :
              input[i].name \in OpenAi!ControlNames \ {"stream_options"} =>
                \E k \in 1..Len(members) : members[k] = input[i]
         /\ \A i \in 1..Len(input) :
              input[i].name = "stream_options" =>
                \E member \in Named(members, "stream_options") :
                  /\ member.number = input[i].number
                  /\ OpenAi!Streaming \/ member.kind = input[i].kind
<1>1. PICK controls \in Seq(MemberRecord) :
        /\ members = out \o controls
        /\ \A i \in 1..Len(controls) : controls[i].name \in OpenAi!ControlNames
  BY DEF WrittenRight
<1>2. position = Len(input) /\ Copied /\ out \in Seq(MemberRecord)
  BY DEF OpenAiInv, OpenAi!AtEnd
<1>3. ASSUME NEW i \in 1..Len(input), input[i].name \in OpenAi!ControlNames
      PROVE  OpenAi!Captured(input[i].name) /\ captured[input[i].name] = input[i]
  BY <1>2, <1>3 DEF OpenAiInv, OpenAi!Captured
<1>4. ASSUME NEW i \in 1..Len(input), input[i].name \notin OpenAi!ControlNames
      PROVE  /\ OpenAi!Others(input, i) \in 1..Len(members)
             /\ members[OpenAi!Others(input, i)] = input[i]
  <2> DEFINE place == OpenAi!Others(input, i)
  <2>1. place \in 1..Len(out) /\ out[place] = input[i]
    BY <1>2, <1>4 DEF Copied
  <2> HIDE DEF place
  <2>2. place \in 1..Len(members) /\ members[place] = out[place]
    BY <1>1, <1>2, <2>1
  <2>3. QED
    BY <2>1, <2>2 DEF place
<1>5. OpenAi!Others(members, Len(members)) = OpenAi!Others(input, Len(input))
  BY <1>1, <1>2, OthersFirst DEF Copied
<1>6. ASSUME NEW i \in 1..Len(input),
             input[i].name \in OpenAi!ControlNames \ {"stream_options"}
      PROVE  \E k \in 1..Len(members) : members[k] = input[i]
  <2>1. input[i] \in Named(members, input[i].name)
    BY <1>3, <1>6 DEF WrittenRight, OpenAi!ControlNames
  <2>2. QED
    BY <2>1 DEF Named
<1>7. ASSUME NEW i \in 1..Len(input), input[i].name = "stream_options"
      PROVE  \E member \in Named(members, "stream_options") :
               /\ member.number = input[i].number
               /\ OpenAi!Streaming \/ member.kind = input[i].kind
  <2>1. /\ OpenAi!Captured("stream_options")
        /\ captured["stream_options"] = input[i]
    BY <1>3, <1>7 DEF OpenAi!ControlNames
  <2>2. CASE ~OpenAi!Streaming
    BY <2>1, <2>2 DEF WrittenRight
  <2>3. CASE OpenAi!Streaming
    <3>1. Named(members, "stream_options") = {OpenAi!ForceUsageOption}
      BY <2>3 DEF WrittenRight
    <3>2. input[i] \in OpenAiMembers
      BY DEF OpenAiInv
    <3>3. CASE input[i].kind = "null"
      <4>1. input[i].number = 0
        BY <3>2, <3>3, PreparationAssumption
      <4>2. OpenAi!ForceUsageOption.number = 0
        BY <2>1, <3>3 DEF OpenAi!ForceUsageOption, OpenAi!Member
      <4>3. QED
        BY <2>3, <3>1, <4>1, <4>2
    <3>4. CASE input[i].kind # "null"
      <4>1. OpenAi!ForceUsageOption = [input[i] EXCEPT !.kind = "usage"]
        BY <2>1, <3>4 DEF OpenAi!ForceUsageOption
      <4>2. OpenAi!ForceUsageOption.number = input[i].number
        BY <3>2, <4>1, PreparationAssumption
      <4>3. QED
        BY <2>3, <3>1, <4>2
    <3>5. QED
      BY <3>3, <3>4
  <2>4. QED
    BY <2>2, <2>3
<1>8. QED
  BY <1>4, <1>5, <1>6, <1>7

LEMMA ImagesTyped ==
  ASSUME NEW members \in Seq(MemberRecord)
  PROVE  OpenAi!Images(members) \in Nat
<1>1. Len(members) \in Nat /\ IsFiniteSet(1..Len(members))
  BY FS_Interval
<1>2. [i \in 1..Len(members) |-> members[i].images] \in [1..Len(members) -> Nat]
  <2>1. \A i \in 1..Len(members) : members[i] \in MemberRecord
    OBVIOUS
  <2>2. \A i \in 1..Len(members) : members[i].images \in Nat
    BY <2>1 DEF MemberRecord
  <2>3. QED
    BY <2>2
<1>3. SumFunction([i \in 1..Len(members) |-> members[i].images]) \in Nat
  BY <1>1, <1>2, SumOfNaturals
<1>4. QED
  BY <1>3, SumsAreOne DEF OpenAi!Images

LEMMA FinishKeepsInv ==
  ASSUME OpenAiInv, OpenAi!Finish
  PROVE  OpenAiInv'
<1> DEFINE members == OpenAi!Written
           bound == OpenAi!MaxOutputTokens
           total == OpenAi!Budget(members, bound)
<1>1. /\ OpenAi!AtEnd /\ OpenAi!StreamOptionsAreFine /\ OpenAi!LimitIsFine
      /\ out' = members
      /\ UNCHANGED <<input, position, captured>>
      /\ \/ result' = "TokenBudgetOverflow"
         \/ /\ result' = "ok" /\ ~(total > MaxU64)
            /\ metadata' = [streaming |-> OpenAi!Streaming, maxOutput |-> bound,
                            budget |-> total]
  BY DEF OpenAi!Finish
<1>2. WrittenRight(members)
  BY <1>1, ControlsWritten
<1>3. members \in Seq(MemberRecord)
  BY <1>2 DEF WrittenRight
<1>4. \A name : OpenAi!Forwarded(name)' = Named(members, name)
  BY <1>1 DEF OpenAi!Forwarded, Named
<1>5. OpenAi!ProviderStreamsWithUsage'
  <2> SUFFICES ASSUME result' = "ok" PROVE OpenAi!ProviderStreamsWithUsage'
    BY DEF OpenAi!ProviderStreamsWithUsage
  <2>1. metadata'.streaming = OpenAi!Streaming
    BY <1>1
  <2>2. /\ \A member \in Named(members, "stream") :
             OpenAi!IsTrue(member) = OpenAi!Streaming
        /\ OpenAi!Streaming =>
             /\ Named(members, "stream") # {}
             /\ \E option \in Named(members, "stream_options") :
                  Named(members, "stream_options") = {option} /\ option.kind = "usage"
    BY <1>2, StreamsAsUnderstood
  <2> HIDE DEF members
  <2>3. QED
    BY <1>4, <2>1, <2>2 DEF OpenAi!ProviderStreamsWithUsage, OpenAi!IsTrue
<1>6. OpenAi!ProviderBoundIsBudgeted'
  <2> SUFFICES ASSUME result' = "ok" PROVE OpenAi!ProviderBoundIsBudgeted'
    BY DEF OpenAi!ProviderBoundIsBudgeted
  <2> DEFINE newer == Named(members, "max_completion_tokens")
             older == Named(members, "max_tokens")
             bounds == IF newer # {} THEN newer ELSE older
             reserve == OpenAi!Images(members) * ImageReserve
             bytes == Len(members)
  <2>1. /\ bounds # {}
        /\ \A member \in bounds : member.kind = "number" /\ member.number = bound
        /\ bound \in Nat /\ bound > 0
    BY <1>1, <1>2, BoundAsUnderstood
  <2>2. metadata'.maxOutput = bound /\ metadata'.budget = total /\ ~(total > MaxU64)
    BY <1>1
  <2>3. bytes \in Nat /\ reserve \in Nat
    BY <1>3, ImagesTyped, PreparationAssumption
  <2>4. total = bytes + reserve + bound
    BY DEF OpenAi!Budget
  <2>5. Len(out') = bytes /\ OpenAi!Images(out)' = OpenAi!Images(members)
    BY <1>1 DEF OpenAi!Images
  <2>6. /\ OpenAi!Forwarded("max_completion_tokens")' = newer
        /\ OpenAi!Forwarded("max_tokens")' = older
    BY <1>4
  <2> HIDE DEF members, bound, total, bytes, reserve, newer, older
  <2>7. total - bound = bytes + reserve /\ total <= MaxU64
    BY <2>1, <2>2, <2>3, <2>4, PreparationAssumption
  <2>8. metadata'.budget - metadata'.maxOutput =
          Len(out') + OpenAi!Images(out)' * ImageReserve
    BY <2>2, <2>5, <2>7 DEF reserve
  <2>9. QED
    BY <2>1, <2>2, <2>6, <2>7, <2>8 DEF OpenAi!ProviderBoundIsBudgeted
<1>7. OpenAi!RestIsUntouched'
  <2> SUFFICES ASSUME result' = "ok" PROVE OpenAi!RestIsUntouched'
    BY DEF OpenAi!RestIsUntouched
  <2>1. /\ \A i \in 1..Len(input) :
             input[i].name \notin OpenAi!ControlNames =>
               /\ OpenAi!Others(input, i) \in 1..Len(members)
               /\ members[OpenAi!Others(input, i)] = input[i]
        /\ OpenAi!Others(members, Len(members)) = OpenAi!Others(input, Len(input))
        /\ \A i \in 1..Len(input) :
             input[i].name \in OpenAi!ControlNames \ {"stream_options"} =>
               \E k \in 1..Len(members) : members[k] = input[i]
        /\ \A i \in 1..Len(input) :
             input[i].name = "stream_options" =>
               \E member \in Named(members, "stream_options") :
                 /\ member.number = input[i].number
                 /\ OpenAi!Streaming \/ member.kind = input[i].kind
    BY <1>1, <1>2, RestAsRead
  <2>2. metadata'.streaming = OpenAi!Streaming
    BY <1>1
  <2>3. out' = members /\ input' = input
    BY <1>1
  <2>4. OpenAi!Forwarded("stream_options")' = Named(members, "stream_options")
    BY <1>4
  <2> HIDE DEF members
  <2>5. QED
    BY <2>1, <2>2, <2>3, <2>4
       DEF OpenAi!RestIsUntouched, OpenAi!Contains, OpenAi!Others
<1>8. QED
  BY <1>1, <1>3, <1>5, <1>6, <1>7 DEF OpenAiInv

(* A member that is read is written, or held back under its name.          *)
LEMMA MemberKeepsInv ==
  ASSUME OpenAiInv, OpenAi!CopyMember \/ OpenAi!Capture
  PROVE  OpenAiInv'
<1> DEFINE member == input[position + 1]
<1>1. /\ position < Len(input) /\ position' = position + 1 /\ input' = input
      /\ result = "reading" /\ result' = "reading"
  BY DEF OpenAi!CopyMember, OpenAi!Capture, OpenAi!Reading
<1>2. /\ input \in Seq(OpenAiMembers) /\ position \in Nat /\ Len(input) \in Nat
      /\ position + 1 \in 0..Len(input) /\ position + 1 \in 1..Len(input)
  BY <1>1 DEF OpenAiInv
<1>3. member \in MemberRecord
  <2>1. member \in OpenAiMembers
    BY <1>2
  <2>2. OpenAiMembers \subseteq MemberRecord
    BY PreparationAssumption DEF MemberRecord, MemberNames, ValueKinds
  <2>3. QED
    BY <2>1, <2>2
<1>4. \A i \in 1..(position + 1) : i \in 1..position \/ i = position + 1
  BY <1>2
<1>5. /\ out \in Seq(MemberRecord) /\ Copied
      /\ \A i \in 1..position : input[i].name \in OpenAi!ControlNames =>
           input[i].name \in DOMAIN captured /\ captured[input[i].name] = input[i]
      /\ DOMAIN captured \subseteq OpenAi!ControlNames
      /\ \A name \in DOMAIN captured :
           captured[name] \in MemberRecord /\ captured[name].name = name
  BY <1>1 DEF OpenAiInv
<1>6. OpenAi!Others(input, position + 1) =
        IF member.name \in OpenAi!ControlNames
        THEN OpenAi!Others(input, position) ELSE OpenAi!Others(input, position) + 1
  BY <1>2, OthersAdd
<1>7. CASE OpenAi!CopyMember
  <2>1. /\ member.name \notin OpenAi!ControlNames
        /\ out' = Append(out, member) /\ captured' = captured
    BY <1>7 DEF OpenAi!CopyMember, OpenAi!IsControl, OpenAi!Current
  <2> DEFINE n == Len(out)
  <2>2. /\ n \in Nat /\ Len(out') = n + 1 /\ out'[n + 1] = member
        /\ out' \in Seq(MemberRecord)
        /\ \A i \in 1..n : out'[i] = out[i]
    BY <1>3, <1>5, <2>1
  <2> HIDE DEF n
  <2>3. \A i \in 1..(n + 1) : i \in 1..n \/ i = n + 1
    BY <2>2
  <2>4. \A i \in 1..Len(out') : out'[i].name \notin OpenAi!ControlNames
    BY <1>5, <2>1, <2>2, <2>3 DEF Copied, n
  <2>5. Len(out') = OpenAi!Others(input, position + 1) /\ Len(out') = n + 1
    BY <1>5, <1>6, <2>1, <2>2 DEF Copied, n
  <2>6. ASSUME NEW i \in 1..(position + 1), input[i].name \notin OpenAi!ControlNames
        PROVE  /\ OpenAi!Others(input, i) \in 1..Len(out')
               /\ out'[OpenAi!Others(input, i)] = input[i]
    <3>1. CASE i = position + 1
      BY <2>2, <2>5, <3>1
    <3>2. CASE i # position + 1
      <4>1. i \in 1..position
        BY <1>4, <3>2
      <4>2. OpenAi!Others(input, i) \in 1..n /\ out[OpenAi!Others(input, i)] = input[i]
        BY <1>5, <2>6, <4>1 DEF Copied, n
      <4>3. QED
        BY <2>2, <4>2
    <3>3. QED
      BY <3>1, <3>2
  <2>7. Copied'
    <3>1. \A i : OpenAi!Others(input', i) = OpenAi!Others(input, i)
      BY <1>1
    <3>2. QED
      BY <1>1, <2>4, <2>5, <2>6, <3>1 DEF Copied
  <2>8. \A i \in 1..(position + 1) : input[i].name \in OpenAi!ControlNames =>
          input[i].name \in DOMAIN captured /\ captured[input[i].name] = input[i]
    BY <1>4, <1>5, <2>1
  <2>9. QED
    BY <1>1, <1>2, <1>5, <2>1, <2>2, <2>7, <2>8 DEF OpenAiInv,
       OpenAi!ProviderStreamsWithUsage, OpenAi!ProviderBoundIsBudgeted,
       OpenAi!RestIsUntouched
<1>8. CASE OpenAi!Capture
  <2>1. /\ member.name \in OpenAi!ControlNames /\ member.name \notin DOMAIN captured
        /\ out' = out
        /\ captured' = [name \in DOMAIN captured \cup {member.name} |->
                          IF name = member.name THEN member ELSE captured[name]]
    BY <1>8 DEF OpenAi!Capture, OpenAi!IsControl, OpenAi!Current
  <2>2. /\ DOMAIN captured' \subseteq OpenAi!ControlNames
        /\ \A name \in DOMAIN captured' :
             captured'[name] \in MemberRecord /\ captured'[name].name = name
    BY <1>3, <1>5, <2>1
  <2>3. \A i \in 1..(position + 1) : input[i].name \in OpenAi!ControlNames =>
          input[i].name \in DOMAIN captured' /\ captured'[input[i].name] = input[i]
    <3> SUFFICES ASSUME NEW i \in 1..(position + 1),
                        input[i].name \in OpenAi!ControlNames
                 PROVE  /\ input[i].name \in DOMAIN captured'
                        /\ captured'[input[i].name] = input[i]
      OBVIOUS
    <3>1. CASE i = position + 1
      BY <2>1, <3>1
    <3>2. CASE i # position + 1
      <4>1. input[i].name \in DOMAIN captured /\ captured[input[i].name] = input[i]
        BY <1>4, <1>5, <3>2
      <4>2. QED
        BY <2>1, <4>1
    <3>3. QED
      BY <3>1, <3>2
  <2>4. Copied'
    <3>1. \A i : OpenAi!Others(input', i) = OpenAi!Others(input, i)
      BY <1>1
    <3>2. Len(out) = OpenAi!Others(input, position + 1)
      BY <1>5, <1>6, <2>1 DEF Copied
    <3>3. \A i \in 1..(position + 1) : input[i].name \notin OpenAi!ControlNames =>
            i \in 1..position
      BY <1>4, <2>1
    <3>4. QED
      BY <1>1, <1>5, <2>1, <3>1, <3>2, <3>3 DEF Copied
  <2>5. QED
    BY <1>1, <1>2, <1>5, <2>1, <2>2, <2>3, <2>4 DEF OpenAiInv,
       OpenAi!ProviderStreamsWithUsage, OpenAi!ProviderBoundIsBudgeted,
       OpenAi!RestIsUntouched
<1>9. QED
  BY <1>7, <1>8

LEMMA OpenAiKept ==
  ASSUME OpenAiInv, OpenAiStep
  PROVE  OpenAiInv'
<1>1. CASE OpenAi!RejectDuplicate \/ OpenAi!RejectHuge \/ OpenAi!ReadFails
           \/ OpenAi!SpoolIsFull \/ OpenAi!RejectControls
  <2>1. /\ UNCHANGED <<input, position, captured, out>>
        /\ result' \notin {"reading", "ok"}
    BY <1>1 DEF OpenAi!RejectDuplicate, OpenAi!RejectHuge, OpenAi!ReadFails,
       OpenAi!SpoolIsFull, OpenAi!RejectControls, OpenAi!Fail
  <2>2. QED
    BY <2>1 DEF OpenAiInv, OpenAi!ProviderStreamsWithUsage,
       OpenAi!ProviderBoundIsBudgeted, OpenAi!RestIsUntouched
<1>2. QED
  BY <1>1, MemberKeepsInv, FinishKeepsInv DEF OpenAiStep

LEMMA NextKeepsOpenAiInv ==
  ASSUME route = "openai" => OpenAiInv, [PrepareNext]_allVars
  PROVE  (route = "openai" => OpenAiInv)'
<1> SUFFICES ASSUME route' = "openai" PROVE OpenAiInv'
  OBVIOUS
<1>1. CASE UNCHANGED <<route, workerVars>>
  <2>1. /\ UNCHANGED <<route, input, position, captured, out, result, metadata>>
        /\ OpenAiInv
    BY <1>1 DEF workerVars
  <2>2. \A name : OpenAi!Forwarded(name)' = OpenAi!Forwarded(name)
    BY <2>1 DEF OpenAi!Forwarded
  <2>3. OpenAi!Images(out)' = OpenAi!Images(out)
    BY <2>1 DEF OpenAi!Images
  <2>4. OpenAi!ProviderStreamsWithUsage'
    BY <2>1, <2>2 DEF OpenAiInv, OpenAi!ProviderStreamsWithUsage, OpenAi!IsTrue
  <2>5. OpenAi!ProviderBoundIsBudgeted'
    BY <2>1, <2>2, <2>3 DEF OpenAiInv, OpenAi!ProviderBoundIsBudgeted
  <2>6. \A members, i : OpenAi!Others(members, i)' = OpenAi!Others(members, i)
    BY DEF OpenAi!Others
  <2>7. OpenAi!RestIsUntouched'
    BY <2>1, <2>2, <2>6 DEF OpenAiInv, OpenAi!RestIsUntouched
  <2>8. Copied' = Copied
    BY <2>1, <2>6 DEF Copied
  <2>9. QED
    BY <2>1, <2>4, <2>5, <2>7, <2>8 DEF OpenAiInv
<1>2. CASE OpenAiStep
  BY <1>2, OpenAiKept DEF OpenAiStep
<1>3. CASE AnthropicStep
  BY <1>3 DEF AnthropicStep
<1>4. QED
  BY <1>1, <1>2, <1>3 DEF PrepareNext, WorkerNext, UploadStep, WorkerReads,
     WorkerGivesUp, allVars

LEMMA SpecKeepsOpenAiInv == PrepareSpec => [](route = "openai" => OpenAiInv)
<1>1. PrepareInit => (route = "openai" => OpenAiInv)
  BY OpenAiStarts
<1>2. (route = "openai" => OpenAiInv) /\ [PrepareNext]_allVars
        => (route = "openai" => OpenAiInv)'
  BY NextKeepsOpenAiInv
<1>3. QED
  BY <1>1, <1>2, PTL DEF PrepareSpec

(* The body that reaches OpenAI asks for a stream exactly when the gateway *)
(* relays one, and then exactly one stream_options asks for its usage,     *)
(* whatever members the client sent and in whatever order.                 *)
THEOREM OpenAiAlwaysStreamsWithUsage == PrepareSpec => []OpenAiStreamsWithUsage
<1>1. (route = "openai" => OpenAiInv) => OpenAiStreamsWithUsage
  BY DEF OpenAiInv, OpenAiStreamsWithUsage
<1>2. QED
  BY <1>1, SpecKeepsOpenAiInv, PTL

(* There is a bound on the output in every body that reaches OpenAI, it is *)
(* the one in the budget, and the budget did not overflow.                 *)
THEOREM OpenAiBoundAlwaysBudgeted == PrepareSpec => []OpenAiBoundIsBudgeted
<1>1. (route = "openai" => OpenAiInv) => OpenAiBoundIsBudgeted
  BY DEF OpenAiInv, OpenAiBoundIsBudgeted
<1>2. QED
  BY <1>1, SpecKeepsOpenAiInv, PTL

(* The members the gateway does not control reach OpenAI as they came, in  *)
(* their order, and so do its control members but for a forced usage       *)
(* option.                                                                 *)
THEOREM OpenAiRestAlwaysUntouched == PrepareSpec => []OpenAiRestIsUntouched
<1>1. (route = "openai" => OpenAiInv) => OpenAiRestIsUntouched
  BY DEF OpenAiInv, OpenAiRestIsUntouched
<1>2. QED
  BY <1>1, SpecKeepsOpenAiInv, PTL

-----------------------------------------------------------------------------
(* Progress.  PreparationEnds needs fairness and stays with TLC; that the  *)
(* steps run out after the deadline, and that neither thread is ever left  *)
(* without one, is proved.                                                 *)

PumpPlaces == {"top", "awaiting", "sending", "returning", "returned"}
ReaderPlaces == {"starting", "reading", "eof", "error", "dropped"}

(* Where the two threads are in the body.                                  *)
PlacesInv ==
  /\ pump \in PumpPlaces /\ reader \in ReaderPlaces
  /\ size \in Nat /\ Len(input) \in Nat /\ Len(input) <= size
  /\ Len(chan) <= Capacity
  /\ position \in 0..Len(input)

(* Where the worker is: it inspects only what it has spooled to its end,   *)
(* parses no further than it has read, and reads on while it has to.       *)
WorkerInv ==
  /\ result = "reading" => route = "openai" /\ position <= read
  /\ result \in {"spooling", "inspecting"} => route = "anthropic"
  /\ reader = "eof" /\ result = "reading" => position = Len(input)
  /\ reader = "eof" /\ result = "spooling" => read <= MaxSpooledAnthropic
  /\ result = "inspecting" => reader = "eof" /\ spooled = size
  /\ Working => reader # "dropped"

ProgressInv == PreparationInv /\ PlacesInv /\ WorkerInv

LEMMA ProgressStarts == PrepareInit => ProgressInv
<1> SUFFICES ASSUME PrepareInit PROVE ProgressInv
  OBVIOUS
<1>1. /\ unsent = 0 /\ read = 0 /\ chan = <<>> /\ pump = "top"
      /\ reader = "starting" /\ position = 0
      /\ \/ route = "openai" /\ result = "reading"
         \/ route = "anthropic" /\ result = "spooling"
  BY DEF PrepareInit, Init, OpenAi!Init, Anthropic!Init
<1>2. Len(input) \in Nat
  <2>1. CASE route = "openai"
    <3>1. input \in Seq(OpenAiMembers)
      BY <2>1, BodyTyped DEF PrepareInit, OpenAi!Init
    <3>2. QED
      BY <3>1
  <2>2. CASE route = "anthropic"
    <3>1. input \in Seq(AnthropicMembers)
      BY <2>2, BodyTyped DEF PrepareInit, Anthropic!Init
    <3>2. QED
      BY <3>1
  <2>3. QED
    BY <1>1, <2>1, <2>2
<1>3. size \in Nat /\ Len(input) <= size
  <2>1. size \in Len(input)..Smaller(Len(input) + 1, MaxSections)
    BY DEF PrepareInit
  <2>2. Smaller(Len(input) + 1, MaxSections) \in Int
    BY <1>2, PreparationAssumption DEF Smaller
  <2>3. QED
    BY <1>2, <2>1, <2>2
<1>4. Len(chan) = 0 /\ Capacity \in Nat
  BY <1>1, PreparationAssumption
<1>5. PlacesInv
  BY <1>1, <1>2, <1>3, <1>4 DEF PlacesInv, PumpPlaces, ReaderPlaces
<1>6. WorkerInv
  BY <1>1 DEF WorkerInv, Working
<1>7. QED
  BY <1>5, <1>6, UploadStarts DEF ProgressInv

(* What a read brings: the next section.                                   *)
LEMMA ReadAdvances ==
  ASSUME UploadInv, ReadSection
  PROVE  /\ read \in Nat /\ read' = read + 1
         /\ Len(chan) \in Nat /\ Len(chan') = Len(chan) - 1
<1>1. /\ reader = "reading" /\ chan # <<>>
      /\ read' = Head(chan) /\ chan' = Tail(chan)
  BY DEF ReadSection
<1>2. chan \in Seq(Nat) /\ Len(chan) \in Nat \ {0} /\ read \in Nat
  BY <1>1, EmptySeq DEF UploadInv
<1>3. Head(chan) = chan[1] /\ Len(chan') = Len(chan) - 1
  BY <1>1, <1>2, HeadTailProperties
<1>4. 1 \in 1..Len(chan)
  BY <1>2
<1>5. chan[1] = read + 1
  BY <1>1, <1>4 DEF UploadInv, Conserved, Reading
<1>6. QED
  BY <1>1, <1>2, <1>3, <1>5

(* What a step of the upload does to the channel and to the thread that    *)
(* reads it.                                                               *)
LEMMA UploadMoves ==
  ASSUME UploadInv, PlacesInv, UploadStep
  PROVE  /\ pump' \in PumpPlaces
         /\ \/ reader' = reader
            \/ reader = "starting" /\ reader' = "reading"
         /\ Len(chan') <= Capacity
         /\ read' = read /\ size' = size
         /\ UNCHANGED <<route, workerVars>>
<1>1. UNCHANGED <<route, workerVars>>
  BY DEF UploadStep
<1>2. CASE SendSection
  <2>1. /\ pump' \in {"top", "sending"} /\ Len(chan) < Capacity
        /\ chan' = Append(chan, arrived - unsent + 1)
        /\ UNCHANGED <<size, reader, read>>
    BY <1>2 DEF SendSection, SectionDone
  <2>2. Len(chan) \in Nat /\ Len(chan') = Len(chan) + 1
    BY <2>1, AppendProperties DEF UploadInv
  <2>3. Len(chan') <= Capacity
    BY <2>1, <2>2, PreparationAssumption
  <2>4. QED
    BY <1>1, <2>1, <2>3 DEF PumpPlaces
<1>3. CASE \/ TopOfLoop \/ ChunkArrives \/ BodyEnds \/ BodyFails
           \/ BodyTimesOut \/ SendRefused \/ SendTimesOut \/ Return
           \/ DeadlinePasses \/ Start
  <2>1. /\ pump' \in PumpPlaces
        /\ reader' = reader \/ (reader = "starting" /\ reader' = "reading")
        /\ chan' = chan /\ read' = read /\ size' = size
    BY <1>3 DEF PlacesInv, PumpPlaces, TopOfLoop, ChunkArrives, BodyEnds,
       BodyFails, BodyTimesOut, SendRefused, SendTimesOut, Return,
       DeadlinePasses, Start, Fail
  <2>2. QED
    BY <1>1, <2>1 DEF PlacesInv
<1>4. QED
  BY <1>2, <1>3 DEF UploadStep, PumpNext

Finished == ~Working

(* A step of the OpenAI worker takes a member it has read, or is its last. *)
LEMMA OpenAiStepMoves ==
  ASSUME OpenAiStep
  PROVE  /\ result = "reading" /\ UNCHANGED <<vars, route, input, spooled>>
         /\ \/ /\ result' = "reading" /\ reader = "reading"
               /\ position < read /\ position < Len(input)
               /\ position' = position + 1
            \/ /\ Finished' /\ position' = position
               /\ reader \in {"reading", "eof", "error"}
<1> USE DEF OpenAiStep, OpenAi!Fail, OpenAi!Reading, OpenAi!AtEnd
<1>1. UNCHANGED <<vars, route, spooled>>
  BY DEF anthropicOnly
<1>2. CASE reader = "reading" /\ position < read /\ OpenAi!CopyMember
  BY <1>1, <1>2 DEF OpenAi!CopyMember
<1>3. CASE reader = "reading" /\ position < read /\ OpenAi!Capture
  BY <1>1, <1>3 DEF OpenAi!Capture
<1>4. CASE /\ reader = "reading"
           /\ OpenAi!RejectDuplicate \/ OpenAi!RejectHuge
  BY <1>1, <1>4 DEF OpenAi!RejectDuplicate, OpenAi!RejectHuge, Finished,
     Working
<1>5. CASE /\ reader \in {"reading", "eof", "error"}
           /\ OpenAi!ReadFails \/ OpenAi!SpoolIsFull \/ OpenAi!RejectControls
  BY <1>1, <1>5 DEF OpenAi!ReadFails, OpenAi!SpoolIsFull,
     OpenAi!RejectControls, Finished, Working
<1>6. CASE reader = "eof" /\ OpenAi!Finish
  <2>1. /\ result = "reading" /\ UNCHANGED <<input, position>>
        /\ result' \in {"ok", "TokenBudgetOverflow"}
    BY <1>6 DEF OpenAi!Finish
  <2>2. QED
    BY <1>1, <1>6, <2>1 DEF Finished, Working
<1>7. QED
  BY <1>2, <1>3, <1>4, <1>5, <1>6

(* A step of the Anthropic worker ends the spooling, inspects a member, or *)
(* is its last.                                                            *)
LEMMA AnthropicStepMoves ==
  ASSUME AnthropicStep
  PROVE  /\ UNCHANGED <<vars, route, input>> /\ route = "anthropic"
         /\ \/ /\ result = "spooling" /\ result' = "inspecting"
               /\ reader = "eof" /\ spooled' = read /\ position' = position
            \/ /\ result = "inspecting" /\ result' = "inspecting"
               /\ reader = "eof" /\ spooled' = spooled
               /\ position < Len(input) /\ position' = position + 1
            \/ /\ result \in {"spooling", "inspecting"} /\ Finished'
               /\ position' = position
<1> USE DEF AnthropicStep, Anthropic!Fail, Anthropic!Inspecting
<1>1. UNCHANGED <<vars, route>> /\ route = "anthropic"
  OBVIOUS
<1>2. CASE reader = "eof" /\ Anthropic!Spool(read)
  BY <1>1, <1>2 DEF Anthropic!Spool
<1>3. CASE Anthropic!SpoolIsFull(read) \/ Anthropic!SpoolFails
  BY <1>1, <1>3 DEF Anthropic!SpoolIsFull, Anthropic!SpoolFails, Finished,
     Working
<1>4. CASE reader = "eof" /\ (Anthropic!ReadField \/ Anthropic!CountImages)
  BY <1>1, <1>4 DEF Anthropic!ReadField, Anthropic!CountImages
<1>5. CASE Anthropic!RejectField
  BY <1>1, <1>5 DEF Anthropic!RejectField, Finished, Working
<1>6. CASE Anthropic!NotJson \/ Anthropic!NoMaxTokens \/ Anthropic!SeekFails
  BY <1>1, <1>6 DEF Anthropic!NotJson, Anthropic!NoMaxTokens, Anthropic!SeekFails,
     Anthropic!AtEnd, Finished, Working
<1>7. CASE Anthropic!Finish
  <2>1. /\ result = "inspecting" /\ UNCHANGED <<input, position>>
        /\ result' \in {"ok", "TokenBudgetOverflow"}
    BY <1>7 DEF Anthropic!Finish, Anthropic!AtEnd
  <2>2. QED
    BY <1>1, <2>1 DEF Finished, Working
<1>8. QED
  BY <1>2, <1>3, <1>4, <1>5, <1>6, <1>7 DEF Anthropic!Inspect

LEMMA NextKeepsProgress ==
  ProgressInv /\ [PrepareNext]_allVars => ProgressInv'
<1> SUFFICES ASSUME ProgressInv, [PrepareNext]_allVars
             PROVE  PlacesInv' /\ WorkerInv'
  BY NextKeepsInv DEF ProgressInv
<1>0. UploadInv /\ PlacesInv /\ WorkerInv /\ read \in Nat /\ UploadInv'
  BY NextKeepsInv DEF ProgressInv, PreparationInv, UploadInv
<1>1. CASE UploadStep
  <2>1. /\ pump' \in PumpPlaces /\ Len(chan') <= Capacity
        /\ reader' = reader \/ (reader = "starting" /\ reader' = "reading")
        /\ UNCHANGED <<read, size, route, input, position, result, spooled>>
    BY <1>0, <1>1, UploadMoves DEF workerVars
  <2>2. PlacesInv'
    BY <1>0, <2>1 DEF PlacesInv, ReaderPlaces
  <2>3. WorkerInv'
    BY <1>0, <2>1 DEF WorkerInv, Working
  <2>4. QED
    BY <2>2, <2>3
<1>2. CASE WorkerReads /\ ReadSection
  <2>1. /\ reader = "reading" /\ reader' = reader
        /\ UNCHANGED <<pump, size, route, input, position, result, spooled>>
    BY <1>2 DEF WorkerReads, ReadSection, workerVars
  <2>2. read' = read + 1 /\ Len(chan) \in Nat /\ Len(chan') = Len(chan) - 1
    BY <1>0, <1>2, ReadAdvances
  <2>3. PlacesInv'
    BY <1>0, <2>1, <2>2, PreparationAssumption DEF PlacesInv
  <2>4. WorkerInv'
    BY <1>0, <2>1, <2>2 DEF WorkerInv, Working, PlacesInv
  <2>5. QED
    BY <2>3, <2>4
<1>3. CASE WorkerReads /\ ReadEnd
  <2>1. /\ reader = "reading" /\ reader' \in {"eof", "error"} /\ WantsMore
        /\ UNCHANGED <<pump, size, chan, read, route, input, position, result,
                       spooled>>
    BY <1>3 DEF WorkerReads, ReadEnd, workerVars
  <2>2. PlacesInv'
    BY <1>0, <2>1 DEF PlacesInv, ReaderPlaces
  <2>3. reader' = "eof" => read = size
    BY <1>0, <2>1 DEF UploadInv
  <2>4. reader' = "eof" /\ result = "reading" => position = Len(input)
    BY <1>0, <2>1, <2>3 DEF WorkerInv, WantsMore, PlacesInv
  <2>5. WorkerInv'
    BY <1>0, <2>1, <2>4 DEF WorkerInv, WantsMore, Working
  <2>6. QED
    BY <2>2, <2>5
<1>4. CASE OpenAiStep
  <2>1. PlacesInv'
    BY <1>0, <1>4, OpenAiStepMoves DEF PlacesInv, vars
  <2>2. WorkerInv'
    BY <1>0, <1>4, OpenAiStepMoves
       DEF WorkerInv, PlacesInv, vars, Finished, Working
  <2>3. QED
    BY <2>1, <2>2
<1>5. CASE AnthropicStep
  <2>1. PlacesInv'
    BY <1>0, <1>5, AnthropicStepMoves DEF PlacesInv, vars
  <2>2. reader = "eof" => read = size
    BY <1>0 DEF UploadInv
  <2>3. WorkerInv'
    BY <1>0, <1>5, <2>2, AnthropicStepMoves
       DEF WorkerInv, vars, Finished, Working
  <2>4. QED
    BY <2>1, <2>3
<1>6. CASE WorkerGivesUp
  <2>1. /\ ~Working /\ reader' = "dropped" /\ chan' = <<>>
        /\ UNCHANGED <<pump, size, read, route, input, position, result,
                       spooled>>
    BY <1>6 DEF WorkerGivesUp, GiveUp, workerVars
  <2>2. Len(chan') = 0 /\ Capacity \in Nat
    BY <2>1, PreparationAssumption
  <2>3. PlacesInv'
    BY <1>0, <2>1, <2>2 DEF PlacesInv, ReaderPlaces
  <2>4. WorkerInv'
    BY <1>0, <2>1 DEF WorkerInv, Working
  <2>5. QED
    BY <2>3, <2>4
<1>7. CASE UNCHANGED allVars
  BY <1>0, <1>7 DEF allVars, vars, workerVars, PlacesInv, WorkerInv, Working
<1>8. QED
  BY <1>1, <1>2, <1>3, <1>4, <1>5, <1>6, <1>7
     DEF PrepareNext, WorkerNext, WorkerReads

LEMMA SpecKeepsProgress == PrepareSpec => []ProgressInv
<1>1. QED
  BY ProgressStarts, NextKeepsProgress, PTL DEF PrepareSpec

(* What the pump and the worker have still to do once the deadline has     *)
(* passed: no chunk is then taken any more, so what is left of the current *)
(* one, of the channel and of the body bounds their steps.                 *)
PumpRank ==
  IF pump \in {"awaiting", "sending"} THEN 3
  ELSE IF pump = "top" THEN 2
  ELSE IF pump = "returning" THEN 1 ELSE 0

ReaderRank ==
  IF reader = "starting" THEN 2 ELSE IF reader = "reading" THEN 1 ELSE 0

ResultRank ==
  IF result = "spooling" THEN 2
  ELSE IF result \in {"reading", "inspecting"} THEN 1 ELSE 0

StepsLeft ==
  PumpRank + 2 * unsent + Len(chan) + ReaderRank + ResultRank
  + (Len(input) - position)

StepUsesUp == late => StepsLeft \in Nat /\ StepsLeft' < StepsLeft

LEMMA StepsTyped ==
  ASSUME ProgressInv
  PROVE  /\ PumpRank \in 0..3 /\ ReaderRank \in 0..2 /\ ResultRank \in 0..2
         /\ unsent \in Nat /\ Len(chan) \in Nat /\ Len(input) \in Nat
         /\ position \in 0..Len(input) /\ Len(input) - position \in Nat
         /\ StepsLeft \in Nat
<1>1. /\ PumpRank \in 0..3 /\ ReaderRank \in 0..2 /\ ResultRank \in 0..2
  BY DEF PumpRank, ReaderRank, ResultRank
<1>2. /\ unsent \in Nat /\ Len(chan) \in Nat /\ Len(input) \in Nat
      /\ position \in 0..Len(input)
  BY DEF ProgressInv, PreparationInv, UploadInv, PlacesInv
<1>3. Len(input) - position \in Nat
  BY <1>2
<1>4. StepsLeft \in Nat
  BY <1>1, <1>2, <1>3 DEF StepsLeft
<1>5. QED
  BY <1>1, <1>2, <1>3, <1>4

(* After the deadline each step of the pump comes closer to its end, a     *)
(* section it sends being one the worker still has to read.                *)
LEMMA LateUploadUsesUp ==
  ASSUME ProgressInv, UploadStep, late
  PROVE  StepsLeft' < StepsLeft
<1> DEFINE c == Len(chan)
           togo == Len(input) - position
           now == PumpRank
           after == PumpRank'
<1>1. /\ PumpRank \in 0..3 /\ ReaderRank \in 0..2 /\ ResultRank \in 0..2
      /\ unsent \in Nat /\ c \in Nat /\ togo \in Nat
  BY StepsTyped
<1>2. ResultRank' = ResultRank /\ togo' = togo
  BY DEF UploadStep, workerVars, ResultRank
<1>3. StepsLeft = PumpRank + 2 * unsent + c + ReaderRank + ResultRank + togo
  BY DEF StepsLeft
<1>4. StepsLeft' = PumpRank' + 2 * unsent' + c' + ReaderRank' + ResultRank
                   + togo
  BY <1>2 DEF StepsLeft
<1> HIDE DEF togo
<1>5. CASE SendSection
  <2>1. /\ pump = "sending" /\ pump' \in {"top", "sending"}
        /\ unsent' = unsent - 1 /\ reader' = reader
        /\ chan' = Append(chan, arrived - unsent + 1)
    BY <1>5 DEF SendSection, SectionDone
  <2>2. c' = c + 1
    BY <2>1, AppendProperties DEF c, ProgressInv, PreparationInv, UploadInv
  <2>3. /\ PumpRank = 3 /\ PumpRank' \in 2..3 /\ ReaderRank' = ReaderRank
        /\ unsent' = unsent - 1
    BY <2>1 DEF PumpRank, ReaderRank
  <2>4. StepsLeft' = after + 2 * (unsent - 1) + (c + 1) + ReaderRank
                     + ResultRank + togo
    BY ONLY <1>4, <2>2, <2>3
  <2>5. now = 3 /\ after \in 2..3
    BY <2>3
  <2> HIDE DEF c, now, after
  <2>6. StepsLeft = now + 2 * unsent + c + ReaderRank + ResultRank + togo
    BY <1>3 DEF now
  <2>7. QED
    BY ONLY <1>1, <2>4, <2>5, <2>6
<1>6. CASE \/ TopOfLoop \/ ChunkArrives \/ BodyEnds \/ BodyFails
           \/ BodyTimesOut \/ SendRefused \/ SendTimesOut \/ Return
  <2>1. /\ \/ pump \in {"top", "awaiting", "sending"} /\ pump' = "returning"
           \/ pump = "returning" /\ pump' = "returned"
        /\ unsent' = unsent /\ reader' = reader /\ chan' = chan
    BY <1>6 DEF TopOfLoop, ChunkArrives, BodyEnds, BodyFails, BodyTimesOut,
       SendRefused, SendTimesOut, Return, Fail
  <2>2. PumpRank' < PumpRank /\ PumpRank \in 0..3 /\ PumpRank' \in 0..3
    BY <2>1 DEF PumpRank
  <2>3. c' = c /\ ReaderRank' = ReaderRank /\ unsent' = unsent
    BY <2>1 DEF c, ReaderRank
  <2>4. StepsLeft' = after + 2 * unsent + c + ReaderRank + ResultRank + togo
    BY ONLY <1>4, <2>3
  <2>5. after < now /\ now \in 0..3 /\ after \in 0..3
    BY <2>2
  <2> HIDE DEF c, now, after
  <2>6. StepsLeft = now + 2 * unsent + c + ReaderRank + ResultRank + togo
    BY <1>3 DEF now
  <2>7. QED
    BY ONLY <1>1, <2>4, <2>5, <2>6
<1>7. CASE Start
  <2>1. /\ reader = "starting" /\ reader' = "reading"
        /\ UNCHANGED <<pump, unsent, chan>>
    BY <1>7 DEF Start
  <2>2. /\ ReaderRank = 2 /\ ReaderRank' = 1 /\ c' = c
        /\ PumpRank \in 0..3 /\ PumpRank' = PumpRank
    BY <2>1 DEF PumpRank, ReaderRank, c
  <2> HIDE DEF c
  <2>3. QED
    BY <1>1, <1>3, <1>4, <2>1, <2>2
<1>8. QED
  BY <1>5, <1>6, <1>7 DEF UploadStep, PumpNext, DeadlinePasses

LEMMA WorkerUsesUp ==
  ASSUME ProgressInv, WorkerNext
  PROVE  StepsLeft' < StepsLeft
<1> DEFINE c == Len(chan)
           togo == Len(input) - position
<1>1. /\ PumpRank \in 0..3 /\ ReaderRank \in 0..2 /\ ResultRank \in 0..2
      /\ unsent \in Nat /\ c \in Nat /\ togo \in Nat
  BY StepsTyped
<1>2. pump' = pump /\ unsent' = unsent
  BY DEF WorkerNext, WorkerReads, ReadSection, ReadEnd, OpenAiStep,
     AnthropicStep, WorkerGivesUp, GiveUp, vars
<1>3. /\ StepsLeft = PumpRank + 2 * unsent + c + ReaderRank + ResultRank + togo
      /\ StepsLeft' = PumpRank + 2 * unsent + c' + ReaderRank' + ResultRank'
                      + togo'
  BY <1>2 DEF StepsLeft, PumpRank
<1>4. CASE WorkerReads
  <2>1. result' = result /\ togo' = togo
    BY <1>4 DEF WorkerReads, workerVars
  <2>2. ResultRank' = ResultRank
    BY <2>1 DEF ResultRank
  <2>3. CASE ReadSection
    <3>1. reader' = reader /\ c' = c - 1
      BY <2>3, ReadAdvances DEF ReadSection, ProgressInv, PreparationInv
    <3>2. ReaderRank' = ReaderRank
      BY <3>1 DEF ReaderRank
    <3> HIDE DEF c, togo
    <3>3. QED
      BY <1>1, <1>3, <2>1, <2>2, <3>1, <3>2
  <2>4. CASE ReadEnd
    <3>1. reader = "reading" /\ reader' \in {"eof", "error"} /\ c' = c
      BY <2>4 DEF ReadEnd
    <3>2. ReaderRank' = 0 /\ ReaderRank = 1
      BY <3>1 DEF ReaderRank
    <3> HIDE DEF c, togo
    <3>3. QED
      BY <1>1, <1>3, <2>1, <2>2, <3>1, <3>2
  <2>5. QED
    BY <1>4, <2>3, <2>4 DEF WorkerReads
<1>5. CASE OpenAiStep \/ AnthropicStep
  <2>1. /\ reader' = reader /\ chan' = chan /\ input' = input
        /\ \/ result' = result /\ position' = position + 1
           \/ /\ position' = position
              /\ \/ result = "spooling" /\ result' = "inspecting"
                 \/ Working /\ Finished'
    BY <1>5, OpenAiStepMoves, AnthropicStepMoves DEF vars, Working
  <2>2. c' = c /\ ReaderRank' = ReaderRank
    BY <2>1 DEF ReaderRank
  <2>3. \/ ResultRank' = ResultRank /\ togo' = togo - 1
        \/ ResultRank' < ResultRank /\ ResultRank' \in 0..2 /\ togo' = togo
    <3>1. CASE result' = result /\ position' = position + 1
      BY <2>1, <3>1, StepsTyped DEF ResultRank
    <3>2. CASE position' = position
      BY <2>1, <3>2, StepsTyped DEF ResultRank, Working, Finished
    <3>3. QED
      BY <2>1, <3>1, <3>2
  <2> HIDE DEF c, togo
  <2>4. QED
    BY <1>1, <1>3, <2>2, <2>3
<1>6. CASE WorkerGivesUp
  <2>1. /\ reader = "reading" /\ reader' = "dropped" /\ chan' = <<>>
        /\ UNCHANGED <<input, position, result>>
    BY <1>6 DEF WorkerGivesUp, GiveUp, workerVars
  <2>2. /\ ReaderRank = 1 /\ ReaderRank' = 0 /\ ResultRank' = ResultRank
        /\ c' = 0 /\ togo' = togo
    BY <2>1 DEF ReaderRank, ResultRank
  <2> HIDE DEF c, togo
  <2>3. QED
    BY <1>1, <1>3, <2>2
<1>7. QED
  BY <1>4, <1>5, <1>6 DEF WorkerNext

(* After the deadline every step of the pump and of the worker uses up     *)
(* something of a finite amount, whatever the client sends: a preparation  *)
(* cannot go on in rounds that bring it no nearer to its end.              *)
THEOREM LateStepsRunOut == PrepareSpec => [][StepUsesUp]_allVars
<1>1. ProgressInv /\ [PrepareNext]_allVars => [StepUsesUp]_allVars
  BY StepsTyped, LateUploadUsesUp, WorkerUsesUp DEF PrepareNext, StepUsesUp
<1>2. QED
  BY <1>1, SpecKeepsProgress, PTL DEF PrepareSpec

(* The guards of the pump's steps that need no client, and of the          *)
(* worker's.                                                               *)
PumpGoesOn ==
  \/ pump \in {"top", "returning"}
  \/ pump = "awaiting" /\ late
  \/ pump = "sending" /\ (~Reading \/ Len(chan) < Capacity \/ late)

WorkerGoesOn ==
  \/ reader = "starting"
  \/ reader = "reading" /\ WantsMore /\ (chan # <<>> \/ pump = "returned")
  \/ /\ reader = "reading" /\ result = "reading"
     /\ position < read /\ position < Len(input)
  \/ reader = "reading" /\ result = "spooling" /\ read > MaxSpooledAnthropic
  \/ reader = "error" /\ result \in {"reading", "spooling"}
  \/ reader = "eof" /\ result = "reading" /\ position = Len(input)
  \/ reader = "eof" /\ result = "spooling" /\ read <= MaxSpooledAnthropic
  \/ /\ reader = "eof" /\ result = "inspecting"
     /\ position = Len(input) \/ position < spooled

AwaitsPump ==
  reader = "reading" /\ WantsMore /\ chan = <<>> /\ pump # "returned"

NobodyWaitsForever ==
  /\ Working => WorkerGoesOn \/ AwaitsPump
  /\ late => pump = "returned" \/ PumpGoesOn

(* A worker that has no result yet can go on, or waits for a pump that has *)
(* not returned; and after the deadline a pump that has not returned can   *)
(* go on, though the client sends nothing and the worker reads nothing.    *)
(* Neither thread waits for the other while that one waits for it.         *)
THEOREM NoPreparationHangs == PrepareSpec => []NobodyWaitsForever
<1>1. ProgressInv => NobodyWaitsForever
  <2> SUFFICES ASSUME ProgressInv PROVE NobodyWaitsForever
    OBVIOUS
  <2>1. /\ PlacesInv /\ WorkerInv /\ read \in Nat
        /\ MaxSpooledAnthropic \in Int
    BY PreparationAssumption
       DEF ProgressInv, PreparationInv, UploadInv
  <2>2. late => pump = "returned" \/ PumpGoesOn
    BY <2>1 DEF PlacesInv, PumpPlaces, PumpGoesOn
  <2>3. ASSUME Working PROVE WorkerGoesOn \/ AwaitsPump
    <3>1. reader \in {"starting", "reading", "eof", "error"}
      BY <2>1, <2>3 DEF PlacesInv, ReaderPlaces, WorkerInv
    <3>2. CASE reader = "reading" /\ WantsMore
      BY <3>2 DEF WorkerGoesOn, AwaitsPump
    <3>3. CASE reader = "reading" /\ ~WantsMore
      BY <2>1, <2>3, <3>3
         DEF WorkerGoesOn, WantsMore, Working, WorkerInv, PlacesInv
    <3>4. CASE reader \in {"starting", "error"}
      BY <2>1, <2>3, <3>4 DEF WorkerGoesOn, Working, WorkerInv
    <3>5. CASE reader = "eof"
      BY <2>1, <2>3, <3>5
         DEF WorkerGoesOn, Working, WorkerInv, PlacesInv
    <3>6. QED
      BY <3>1, <3>2, <3>3, <3>4, <3>5
  <2>4. QED
    BY <2>2, <2>3 DEF NobodyWaitsForever
<1>2. QED
  BY <1>1, SpecKeepsProgress, PTL

-----------------------------------------------------------------------------
(* The key filter.                                                         *)

KeyPlaces == {"key", "keyOrEnd", "colon"}
Containers == [object : BOOLEAN, expecting_key : BOOLEAN]

(* Keys come in objects only, and a string is where one may come.          *)
Grammar ==
  /\ next \in KeyPlaces => InObject
  /\ next = "valueOrEnd" => nesting # <<>> /\ ~InObject
  /\ string = "key" => next \in {"key", "keyOrEnd"}
  /\ string = "value" => next \in {"value", "valueOrEnd"}
  /\ string # "key" => length = 0

(* Only the innermost container can expect a key, and it does exactly      *)
(* where the document has one.                                             *)
OnlyInnermostExpects ==
  /\ \A i \in 1..(Len(nesting) - 1) : ~containers[i].expecting_key
  /\ nesting # <<>> =>
       containers[Len(nesting)].expecting_key <=> next \in KeyPlaces

(* The inductive invariant: FilterFollowsDocument alone does not say       *)
(* where a container expects its keys.                                     *)
FilterInv ==
  /\ FilterTypeOK
  /\ Grammar
  /\ FilterFollowsDocument
  /\ ~refused => OnlyInnermostExpects
  /\ LimitsHold
  /\ RefusalsAreDeserved

-----------------------------------------------------------------------------
(* Sequences.                                                              *)

LEMMA LastElement ==
  ASSUME NEW S, NEW seq \in Seq(S), seq # <<>>
  PROVE  Len(seq) \in Nat \ {0} /\ Innermost(seq) = seq[Len(seq)] /\ Innermost(seq) \in S
BY EmptySeq, ElementOfSeq, LenProperties DEF Innermost

LEMMA WithoutLast ==
  ASSUME NEW S, NEW seq \in Seq(S), seq # <<>>
  PROVE  /\ Outer(seq) \in Seq(S)
         /\ Len(Outer(seq)) = Len(seq) - 1
         /\ \A i \in 1..(Len(seq) - 1) : Outer(seq)[i] = seq[i]
<1> DEFINE n == Len(seq) - 1
<1>1. 1 \in Int /\ n \in Int /\ n >= 0 /\ \A i \in 1..n : seq[i] \in S
  BY EmptySeq, ElementOfSeq
<1>2. Outer(seq) = SubSeq(seq, 1, n)
  BY DEF Outer
<1> HIDE DEF n
<1>3. /\ SubSeq(seq, 1, n) \in Seq(S)
      /\ Len(SubSeq(seq, 1, n)) = IF 1 <= n THEN n - 1 + 1 ELSE 0
      /\ \A i \in 1..(n - 1 + 1) : SubSeq(seq, 1, n)[i] = seq[1 + i - 1]
  BY <1>1, SubSeqProperties
<1>4. Len(SubSeq(seq, 1, n)) = n
  BY <1>1, <1>3
<1>5. ASSUME NEW i \in 1..n
      PROVE  SubSeq(seq, 1, n)[i] = seq[i]
  <2>1. i \in 1..(n - 1 + 1) /\ 1 + i - 1 = i
    BY <1>1
  <2>2. QED
    BY <1>3, <2>1
<1>6. QED
  BY <1>2, <1>3, <1>4, <1>5 DEF n

LEMMA Appended ==
  ASSUME NEW S, NEW seq \in Seq(S), NEW e \in S
  PROVE  /\ Append(seq, e) \in Seq(S)
         /\ Append(seq, e) # <<>>
         /\ Len(Append(seq, e)) = Len(seq) + 1
         /\ \A i \in 1..Len(seq) : Append(seq, e)[i] = seq[i]
         /\ Append(seq, e)[Len(seq) + 1] = e
         /\ Innermost(Append(seq, e)) = e
<1>1. Len(seq) \in Nat
  BY LenProperties
<1>2. /\ Append(seq, e) \in Seq(S)
      /\ Append(seq, e) # <<>>
      /\ Len(Append(seq, e)) = Len(seq) + 1
      /\ \A i \in 1..Len(seq) : Append(seq, e)[i] = seq[i]
      /\ Append(seq, e)[Len(seq) + 1] = e
  BY AppendProperties
<1>3. QED
  BY <1>2 DEF Innermost

-----------------------------------------------------------------------------
(* The filter's operators, each in the states in which it is called.       *)

(* In an object, a colon or a comma changes what the object expects;       *)
LEMMA ExpectKeyInObject ==
  ASSUME containers \in Seq(Containers), containers # <<>>,
         Innermost(containers).object, NEW e \in BOOLEAN, ExpectKey(e)
  PROVE  /\ containers' \in Seq(Containers)
         /\ Len(containers') = Len(containers)
         /\ \A i \in 1..Len(containers) :
              containers'[i].object = containers[i].object
         /\ \A i \in 1..(Len(containers) - 1) : containers'[i] = containers[i]
         /\ containers'[Len(containers)].expecting_key = e
<1> DEFINE n == Len(containers)
<1> DEFINE c == [containers[n] EXCEPT !.expecting_key = e]
<1>1. n \in Nat \ {0} /\ n \in 1..n /\ containers[n] \in Containers
  BY LastElement
<1>2. c \in Containers /\ c.object = containers[n].object /\ c.expecting_key = e
  BY <1>1 DEF Containers
<1>3. containers' = [containers EXCEPT ![n] = c]
  BY DEF ExpectKey
<1> HIDE DEF n, c
<1>4. /\ containers' \in Seq(Containers)
      /\ Len(containers') = n
      /\ \A j \in 1..n : containers'[j] = IF j = n THEN c ELSE containers[j]
  BY <1>1, <1>2, <1>3, ExceptSeq DEF n
<1>5. QED
  BY <1>1, <1>2, <1>4 DEF n

(* in an array or outside of every container it changes nothing.           *)
LEMMA ExpectKeyElsewhere ==
  ASSUME NEW e, ExpectKey(e), containers = <<>> \/ ~Innermost(containers).object
  PROVE  containers' = containers
BY DEF ExpectKey

(* The innermost containers of document and filter are of one kind.        *)
LEMMA SameInnermost ==
  ASSUME FilterInv, ~refused
  PROVE  /\ containers = <<>> <=> nesting = <<>>
         /\ nesting # <<>> =>
              /\ Len(nesting) \in Nat \ {0}
              /\ Innermost(containers).object <=> InObject
              /\ Innermost(containers).expecting_key <=> next \in KeyPlaces
         /\ ExpectingKey <=> next \in KeyPlaces
<1> USE DEF FilterInv
<1>1. nesting \in Seq(Kinds) /\ containers \in Seq(Containers)
  BY DEF FilterTypeOK, Containers
<1>2. Len(containers) = Len(nesting)
  BY DEF FilterFollowsDocument
<1>3. containers = <<>> <=> nesting = <<>>
  BY <1>1, <1>2, EmptySeq
<1>4. ASSUME nesting # <<>>
      PROVE  /\ Len(nesting) \in Nat \ {0}
             /\ Innermost(containers).object <=> InObject
             /\ Innermost(containers).expecting_key <=> next \in KeyPlaces
  <2>1. Len(nesting) \in Nat \ {0} /\ Len(nesting) \in 1..Len(nesting)
    BY <1>1, <1>4, LastElement
  <2>2. containers[Len(nesting)].object <=> nesting[Len(nesting)] = "object"
    BY <2>1 DEF FilterFollowsDocument
  <2>3. QED
    BY <1>2, <1>4, <2>1, <2>2 DEF Innermost, InObject, OnlyInnermostExpects
<1>5. ExpectingKey <=> next \in KeyPlaces
  <2>1. nesting = <<>> => next \notin KeyPlaces
    BY DEF Grammar, InObject
  <2>2. QED
    BY <1>3, <1>4, <2>1 DEF ExpectingKey
<1>6. QED
  BY <1>3, <1>4, <1>5

-----------------------------------------------------------------------------
(* One lemma per action of the document.                                   *)

LEMMA OpenBracketStep ==
  ASSUME FilterInv, ~refused, NEW kind \in Kinds, NEW byte,
         kind = "object" => byte = "openBrace",
         kind = "array" => byte = "openBracket",
         OpenBracket(byte, kind)
  PROVE  FilterInv'
<1> DEFINE c == IF kind = "object" THEN Object ELSE Array
<1> USE DEF FilterInv
<1>1. nesting \in Seq(Kinds) /\ containers \in Seq(Containers)
      /\ Len(nesting) \in Nat /\ Len(containers) = Len(nesting)
  BY LenProperties DEF FilterTypeOK, Containers, FilterFollowsDocument
<1>2. c \in Containers /\ (c.object <=> kind = "object")
      /\ (c.expecting_key <=> kind = "object")
  BY DEF Containers, Object, Array
<1>3. /\ ~in_string /\ string = "none" /\ next \in {"value", "valueOrEnd"}
      /\ nesting' = Append(nesting, kind)
      /\ next' = IF kind = "object" THEN "keyOrEnd" ELSE "valueOrEnd"
      /\ UNCHANGED <<string, escape, length>>
  BY DEF OpenBracket, FilterFollowsDocument
<1>4. Push(c)
  <2>1. InspectStructure(byte)
    BY <1>3 DEF OpenBracket, Inspect
  <2>2. CASE kind = "object"
    BY <2>1, <2>2 DEF InspectStructure
  <2>3. CASE kind = "array"
    BY <2>1, <2>3 DEF InspectStructure
  <2>4. QED
    BY <2>2, <2>3 DEF Kinds
<1> HIDE DEF c
<1>5. /\ nesting' \in Seq(Kinds) /\ nesting' # <<>>
      /\ Len(nesting') = Len(nesting) + 1
      /\ \A i \in 1..Len(nesting) : nesting'[i] = nesting[i]
      /\ nesting'[Len(nesting) + 1] = kind
      /\ Innermost(nesting') = kind
  <2>1. /\ Append(nesting, kind) \in Seq(Kinds)
        /\ Append(nesting, kind) # <<>>
        /\ Len(Append(nesting, kind)) = Len(nesting) + 1
        /\ \A i \in 1..Len(nesting) : Append(nesting, kind)[i] = nesting[i]
        /\ Append(nesting, kind)[Len(nesting) + 1] = kind
        /\ Innermost(Append(nesting, kind)) = kind
    BY <1>1, Appended
  <2>2. QED
    BY <1>3, <2>1
<1>5a. InObject' <=> kind = "object"
  BY <1>5 DEF InObject, Innermost
<1>6. Grammar'
  BY <1>3, <1>5, <1>5a DEF Grammar, KeyPlaces, Kinds
<1>7. CASE Len(containers) >= MaxDepth
  <2>1. refused' /\ UNCHANGED <<containers, escaped, in_key, in_string, key_bytes>>
    BY <1>4, <1>7 DEF Push
  <2>2. FilterTypeOK'
    BY <1>3, <1>5, <2>1 DEF FilterTypeOK
  <2>3. RefusalsAreDeserved'
    BY <1>1, <1>5, <1>7, JsonKeyLimitAssumption DEF RefusalsAreDeserved
  <2>4. QED
    BY <1>6, <2>1, <2>2, <2>3 DEF FilterFollowsDocument, LimitsHold
<1>8. CASE ~(Len(containers) >= MaxDepth)
  <2>1. /\ ~refused' /\ UNCHANGED <<escaped, in_key, in_string, key_bytes, refused>>
        /\ containers' = Append(containers, c)
    BY <1>4, <1>8 DEF Push
  <2>2. /\ containers' \in Seq(Containers)
        /\ Len(containers') = Len(nesting')
        /\ \A i \in 1..Len(nesting) : containers'[i] = containers[i]
        /\ containers'[Len(nesting) + 1] = c
    BY <1>1, <1>2, <1>5, <2>1, Appended
  <2>3. FilterTypeOK'
    BY <1>3, <1>5, <2>1, <2>2 DEF FilterTypeOK, Containers
  <2>4. FilterFollowsDocument'
    <3>1. \A i \in 1..Len(nesting') : containers'[i].object <=> nesting'[i] = "object"
      BY <1>1, <1>2, <1>5, <2>2 DEF FilterFollowsDocument
    <3>2. QED
      BY <1>3, <2>1, <2>2, <3>1 DEF FilterFollowsDocument
  <2>5. OnlyInnermostExpects'
    <3>1. \A i \in 1..Len(nesting) : ~containers[i].expecting_key
      BY <1>1, <1>3 DEF OnlyInnermostExpects, KeyPlaces
    <3>2. containers'[Len(nesting')].expecting_key <=> next' \in KeyPlaces
      BY <1>1, <1>2, <1>3, <1>5, <2>2 DEF KeyPlaces, Kinds
    <3>3. \A i \in 1..(Len(nesting') - 1) : ~containers'[i].expecting_key
      BY <1>1, <1>5, <2>2, <3>1
    <3>4. QED
      BY <3>2, <3>3 DEF OnlyInnermostExpects
  <2>6. LimitsHold' /\ RefusalsAreDeserved'
    BY <1>1, <1>3, <1>5, <1>8, <2>1, JsonKeyLimitAssumption
       DEF LimitsHold, RefusalsAreDeserved
  <2>7. QED
    BY <1>6, <2>3, <2>4, <2>5, <2>6
<1>9. QED
  BY <1>7, <1>8

LEMMA CloseBracketStep ==
  ASSUME FilterInv, ~refused, CloseBracket
  PROVE  FilterInv'
<1> DEFINE n == Len(nesting)
<1> USE DEF FilterInv
<1>1. nesting \in Seq(Kinds) /\ containers \in Seq(Containers)
      /\ Len(containers) = n
  BY DEF FilterTypeOK, Containers, FilterFollowsDocument
<1>2. /\ ~in_string /\ string = "none" /\ nesting # <<>>
      /\ nesting' = Outer(nesting) /\ next' = "separator"
      /\ UNCHANGED <<string, escape, length>>
  BY DEF CloseBracket, FilterFollowsDocument
<1>3. n \in Nat \ {0} /\ containers # <<>>
  BY <1>2, SameInnermost
<1>4. /\ containers' = Outer(containers)
      /\ UNCHANGED <<escaped, in_key, in_string, key_bytes, refused>>
  BY <1>2, <1>3 DEF CloseBracket, Inspect, InspectStructure, Pop
<1>5. /\ nesting' \in Seq(Kinds)
      /\ Len(nesting') = n - 1
      /\ \A i \in 1..(n - 1) : nesting'[i] = nesting[i]
  BY <1>1, <1>2, WithoutLast
<1>6. /\ containers' \in Seq(Containers)
      /\ Len(containers') = n - 1
      /\ \A i \in 1..(n - 1) : containers'[i] = containers[i]
  BY <1>1, <1>3, <1>4, WithoutLast
<1>7. FilterTypeOK'
  BY <1>2, <1>4, <1>5, <1>6 DEF FilterTypeOK, Containers
<1>8. Grammar'
  BY <1>2 DEF Grammar, KeyPlaces
<1>9. FilterFollowsDocument'
  <2>1. \A i \in 1..Len(nesting') : containers'[i].object <=> nesting'[i] = "object"
    BY <1>3, <1>5, <1>6 DEF FilterFollowsDocument
  <2>2. QED
    BY <1>2, <1>4, <1>5, <1>6, <2>1 DEF FilterFollowsDocument
<1>10. OnlyInnermostExpects'
  <2>1. \A i \in 1..(n - 1) : ~containers'[i].expecting_key
    BY <1>6 DEF OnlyInnermostExpects
  <2>2. nesting' # <<>> => n - 1 \in 1..(n - 1)
    BY <1>3, <1>5, EmptySeq
  <2>3. next' \notin KeyPlaces
    BY <1>2 DEF KeyPlaces
  <2>4. \A i \in 1..(Len(nesting') - 1) : ~containers'[i].expecting_key
    BY <1>3, <1>5, <2>1
  <2>5. nesting' # <<>> => ~containers'[Len(nesting')].expecting_key
    BY <1>5, <2>1, <2>2
  <2>6. QED
    BY <2>3, <2>4, <2>5 DEF OnlyInnermostExpects
<1>11. LimitsHold' /\ RefusalsAreDeserved'
  BY <1>2, <1>3, <1>4, <1>5, JsonKeyLimitAssumption
     DEF LimitsHold, RefusalsAreDeserved
<1>12. QED
  BY <1>7, <1>8, <1>9, <1>10, <1>11

(* What remains to be shown for a byte that leaves all containers alone.   *)
LEMMA SameContainers ==
  ASSUME FilterInv, ~refused, UNCHANGED <<nesting, containers>>,
         next' \in KeyPlaces <=> next \in KeyPlaces
  PROVE  /\ OnlyInnermostExpects'
         /\ Len(containers') = Len(nesting')
         /\ \A i \in 1..Len(nesting') :
              containers'[i].object <=> nesting'[i] = "object"
         /\ InObject' <=> InObject
BY DEF FilterInv, OnlyInnermostExpects, FilterFollowsDocument, InObject, Innermost

(* A colon or a comma, that makes the innermost object expect a key or not.*)
LEMMA SeparatorStep ==
  ASSUME FilterInv, ~refused, NEW e \in BOOLEAN, ExpectKey(e),
         ~in_string, string = "none",
         UNCHANGED <<nesting, string, escape, length>>,
         next' \in {"key", "value"},
         next' = "key" <=> e /\ InObject,
         ~InObject => next \notin KeyPlaces
  PROVE  FilterInv'
<1> USE DEF FilterInv
<1>1. nesting \in Seq(Kinds) /\ containers \in Seq(Containers)
      /\ Len(containers) = Len(nesting)
  BY DEF FilterTypeOK, Containers, FilterFollowsDocument
<1>2. UNCHANGED <<escaped, in_key, in_string, key_bytes, refused>>
  BY DEF ExpectKey
<1>3. /\ containers' \in Seq(Containers)
      /\ Len(containers') = Len(nesting)
      /\ \A i \in 1..Len(nesting) : containers'[i].object <=> containers[i].object
      /\ OnlyInnermostExpects'
  <2>1. CASE InObject
    <3>1. nesting # <<>> /\ containers # <<>> /\ Innermost(containers).object
          /\ Len(nesting) \in Nat \ {0}
      BY <2>1, SameInnermost DEF InObject
    <3>2. /\ containers' \in Seq(Containers)
          /\ Len(containers') = Len(containers)
          /\ \A i \in 1..Len(containers) :
               containers'[i].object = containers[i].object
          /\ \A i \in 1..(Len(containers) - 1) : containers'[i] = containers[i]
          /\ containers'[Len(containers)].expecting_key = e
      BY <1>1, <3>1, ExpectKeyInObject
    <3>3. next' \in KeyPlaces <=> e
      BY <2>1 DEF KeyPlaces
    <3>4. \A i \in 1..(Len(nesting) - 1) : ~containers'[i].expecting_key
      BY <1>1, <3>1, <3>2 DEF OnlyInnermostExpects
    <3>5. OnlyInnermostExpects'
      BY <1>1, <3>2, <3>3, <3>4 DEF OnlyInnermostExpects
    <3>6. QED
      BY <1>1, <3>2, <3>5
  <2>2. CASE ~InObject
    <3>1. containers' = containers
      BY <2>2, ExpectKeyElsewhere, SameInnermost
    <3>2. next' \notin KeyPlaces /\ next \notin KeyPlaces
      BY <2>2 DEF KeyPlaces
    <3>3. QED
      BY <1>1, <3>1, <3>2, SameContainers
  <2>3. QED
    BY <2>1, <2>2
<1>4. FilterTypeOK'
  BY <1>2, <1>3 DEF FilterTypeOK, Containers
<1>5. Grammar'
  BY DEF Grammar, KeyPlaces, InObject, Innermost
<1>6. FilterFollowsDocument' /\ LimitsHold' /\ RefusalsAreDeserved'
  BY <1>2, <1>3 DEF FilterFollowsDocument, LimitsHold, RefusalsAreDeserved
<1>7. QED
  BY <1>3, <1>4, <1>5, <1>6

LEMMA OpenQuoteStep ==
  ASSUME FilterInv, ~refused, OpenQuote
  PROVE  FilterInv'
<1> USE DEF FilterInv
<1>1. /\ ~in_string /\ string = "none"
      /\ next \in {"value", "valueOrEnd", "key", "keyOrEnd"}
      /\ string' = IF next \in {"key", "keyOrEnd"} THEN "key" ELSE "value"
      /\ length' = 0 /\ UNCHANGED <<nesting, next, escape>>
  BY DEF OpenQuote, FilterFollowsDocument
<1>2. /\ in_string' /\ (in_key' <=> string' = "key") /\ key_bytes' = 0
      /\ UNCHANGED <<containers, escaped, refused>>
  <2>1. OpenString
    BY <1>1 DEF OpenQuote, Inspect, InspectStructure
  <2>2. ExpectingKey <=> string' = "key"
    BY <1>1, SameInnermost DEF KeyPlaces
  <2>3. QED
    BY <2>1, <2>2 DEF OpenString
<1>3. in_key' \in BOOLEAN /\ in_string' \in BOOLEAN
  BY <1>1 DEF OpenQuote, Inspect, InspectStructure, OpenString, ExpectingKey, FilterTypeOK,
              OnlyInnermostExpects
<1>4. FilterTypeOK'
  BY <1>1, <1>2, <1>3 DEF FilterTypeOK
<1>5. Grammar'
  BY <1>1 DEF Grammar, KeyPlaces, InObject, Innermost
<1>6. FilterFollowsDocument' /\ OnlyInnermostExpects'
  BY <1>1, <1>2, SameContainers DEF FilterFollowsDocument
<1>7. LimitsHold' /\ RefusalsAreDeserved'
  BY <1>1, <1>2, JsonKeyLimitAssumption DEF LimitsHold, RefusalsAreDeserved
<1>8. QED
  BY <1>4, <1>5, <1>6, <1>7

LEMMA CloseQuoteStep ==
  ASSUME FilterInv, ~refused, CloseQuote
  PROVE  FilterInv'
<1> USE DEF FilterInv
<1>1. /\ in_string /\ string # "none" /\ ~escape /\ ~escaped
      /\ next' = IF string = "key" THEN "colon" ELSE "separator"
      /\ string' = "none" /\ length' = 0 /\ UNCHANGED <<nesting, escape>>
  BY DEF CloseQuote, FilterFollowsDocument
<1>2. /\ in_string' = FALSE /\ in_key' = FALSE
      /\ UNCHANGED <<containers, escaped, key_bytes, refused>>
  BY <1>1 DEF CloseQuote, Inspect, InspectInString
<1>3. FilterTypeOK'
  BY <1>1, <1>2 DEF FilterTypeOK
<1>4. (next' \in KeyPlaces <=> next \in KeyPlaces) /\ Grammar'
  BY <1>1 DEF Grammar, KeyPlaces, FilterTypeOK, InObject, Innermost
<1>5. FilterFollowsDocument' /\ OnlyInnermostExpects'
  BY <1>1, <1>2, <1>4, SameContainers DEF FilterFollowsDocument
<1>6. LimitsHold' /\ RefusalsAreDeserved'
  BY <1>1, <1>2, JsonKeyLimitAssumption DEF LimitsHold, RefusalsAreDeserved
<1>7. QED
  BY <1>3, <1>4, <1>5, <1>6

LEMMA StringByteStep ==
  ASSUME FilterInv, ~refused, StringByte
  PROVE  FilterInv'
<1> USE DEF FilterInv
<1>1. PICK byte : /\ byte = "quote" => escape
                  /\ escape' = (byte = "backslash" /\ ~escape)
                  /\ Inspect(byte)
  BY DEF StringByte
<1>2. /\ in_string /\ string # "none"
      /\ length' = IF string = "key" THEN length + 1 ELSE 0
      /\ UNCHANGED <<nesting, next, string>>
  BY DEF StringByte, FilterFollowsDocument
<1>3. /\ escaped' = (~escaped /\ byte = "backslash")
      /\ CountKeyByte
      /\ UNCHANGED <<containers, in_key, in_string>>
  BY <1>1, <1>2 DEF Inspect, InspectInString, FilterFollowsDocument
<1>4. /\ escape' \in BOOLEAN /\ escaped' \in BOOLEAN
      /\ escaped' <=> escape'
  BY <1>1, <1>3 DEF FilterFollowsDocument
<1>5. CASE string = "key"
  <2>1. /\ in_key /\ key_bytes = length /\ length \in Nat
        /\ key_bytes' = length + 1 /\ length' = length + 1
        /\ IF length + 1 > MaxKeyBytes THEN refused' = TRUE ELSE refused' = refused
    BY <1>2, <1>3, <1>5 DEF CountKeyByte, FilterFollowsDocument, FilterTypeOK
  <2>2. refused' \in BOOLEAN /\ (refused' <=> length + 1 > MaxKeyBytes)
    <3>1. CASE length + 1 > MaxKeyBytes
      <4>1. refused' = TRUE
        BY <2>1, <3>1
      <4>2. QED
        BY <3>1, <4>1
    <3>2. CASE ~(length + 1 > MaxKeyBytes)
      <4>1. refused' = refused /\ refused \in BOOLEAN
        BY <2>1, <3>2 DEF FilterTypeOK
      <4>2. QED
        BY <3>2, <4>1
    <3>3. QED
      BY <3>1, <3>2
  <2>3. FilterTypeOK' /\ Grammar'
    BY <1>2, <1>3, <1>4, <1>5, <2>1, <2>2
       DEF FilterTypeOK, Grammar, KeyPlaces, InObject, Innermost
  <2>4. FilterFollowsDocument' /\ OnlyInnermostExpects'
    BY <1>2, <1>3, <1>4, <2>1, SameContainers DEF FilterFollowsDocument
  <2>5. LimitsHold' /\ RefusalsAreDeserved'
    BY <1>2, <2>1, <2>2, JsonKeyLimitAssumption
       DEF LimitsHold, RefusalsAreDeserved
  <2>6. QED
    BY <2>3, <2>4, <2>5
<1>6. CASE string # "key"
  <2>1. ~in_key /\ length' = 0 /\ UNCHANGED <<key_bytes, refused>>
    BY <1>2, <1>3, <1>6 DEF CountKeyByte, FilterFollowsDocument
  <2>2. key_bytes' \in Nat /\ refused' \in BOOLEAN /\ length' \in Nat
    BY <2>1 DEF FilterTypeOK
  <2>2a. FilterTypeOK'
    BY <1>2, <1>3, <1>4, <2>2 DEF FilterTypeOK
  <2>2b. Grammar'
    BY <1>2, <1>6, <2>1 DEF Grammar, KeyPlaces, InObject, Innermost
  <2>3. FilterFollowsDocument' /\ OnlyInnermostExpects'
    BY <1>2, <1>3, <1>4, <2>1, SameContainers DEF FilterFollowsDocument
  <2>4. LimitsHold' /\ RefusalsAreDeserved'
    BY <1>2, <2>1, JsonKeyLimitAssumption DEF LimitsHold, RefusalsAreDeserved
  <2>5. QED
    BY <2>2a, <2>2b, <2>3, <2>4
<1>7. QED
  BY <1>5, <1>6

LEMMA OtherByteStep ==
  ASSUME FilterInv, ~refused, OtherByte
  PROVE  FilterInv'
<1> USE DEF FilterInv
<1>1. /\ ~in_string /\ string = "none"
      /\ next' \in IF next \in {"value", "valueOrEnd"} THEN {next, "separator"}
                   ELSE {next}
      /\ UNCHANGED <<nesting, string, escape, length>>
  BY DEF OtherByte, FilterFollowsDocument
<1>2. UNCHANGED filter
  BY <1>1 DEF OtherByte, Inspect, InspectStructure
<1>3. (next' \in KeyPlaces <=> next \in KeyPlaces) /\ Grammar'
  BY <1>1 DEF Grammar, KeyPlaces, FilterTypeOK, InObject, Innermost
<1>4. FilterTypeOK'
  BY <1>1, <1>2 DEF FilterTypeOK, filter
<1>5. FilterFollowsDocument' /\ OnlyInnermostExpects'
  BY <1>1, <1>2, <1>3, SameContainers DEF FilterFollowsDocument, filter
<1>6. LimitsHold' /\ RefusalsAreDeserved'
  BY <1>1, <1>2 DEF LimitsHold, RefusalsAreDeserved, filter
<1>7. QED
  BY <1>3, <1>4, <1>5, <1>6

-----------------------------------------------------------------------------
LEMMA InitFilterInv == FilterInit => FilterInv
<1> SUFFICES ASSUME FilterInit PROVE FilterInv
  OBVIOUS
<1>1. /\ nesting = <<>> /\ containers = <<>> /\ next = "value"
      /\ string = "none" /\ ~refused /\ ~in_key /\ ~in_string
      /\ length = 0
  BY DEF FilterInit
<1>2. Len(nesting) = 0 /\ Len(containers) = 0
      /\ nesting \in Seq(Kinds) /\ containers \in Seq(Containers)
  BY <1>1
<1>3. FilterTypeOK
  BY <1>2 DEF FilterInit, FilterTypeOK, Containers
<1>4. Grammar /\ OnlyInnermostExpects
  BY <1>1, <1>2 DEF Grammar, KeyPlaces, OnlyInnermostExpects
<1>5. FilterFollowsDocument
  BY <1>1, <1>2 DEF FilterInit, FilterFollowsDocument
<1>6. LimitsHold /\ RefusalsAreDeserved
  BY <1>1, <1>2, JsonKeyLimitAssumption DEF LimitsHold, RefusalsAreDeserved
<1>7. QED
  BY <1>3, <1>4, <1>5, <1>6 DEF FilterInv

LEMMA NextKeepsFilterInv == FilterInv /\ [FilterNext]_filterVars => FilterInv'
<1> SUFFICES ASSUME FilterInv, [FilterNext]_filterVars PROVE FilterInv'
  OBVIOUS
<1>1. CASE UNCHANGED filterVars
  BY <1>1 DEF filterVars, FilterInv, FilterTypeOK, Grammar, FilterFollowsDocument,
       OnlyInnermostExpects, LimitsHold, RefusalsAreDeserved, InObject, Innermost
<1>2. CASE FilterNext
  <2>1. ~refused
    BY <1>2 DEF FilterNext
  <2>2. CASE OpenBracket("openBrace", "object")
    BY <2>1, <2>2, OpenBracketStep DEF Kinds
  <2>3. CASE OpenBracket("openBracket", "array")
    BY <2>1, <2>3, OpenBracketStep DEF Kinds
  <2>4. CASE CloseBracket
    BY <2>1, <2>4, CloseBracketStep
  <2>5. CASE Comma
    <3>1. /\ ~in_string /\ string = "none" /\ next = "separator"
          /\ next' = IF InObject THEN "key" ELSE "value"
          /\ UNCHANGED <<nesting, string, escape, length>>
      BY <2>1, <2>5 DEF Comma, FilterInv, FilterFollowsDocument
    <3>2. ExpectKey(TRUE)
      BY <2>5, <3>1 DEF Comma, Inspect, InspectStructure
    <3>3. next' \in {"key", "value"} /\ (next' = "key" <=> TRUE /\ InObject)
          /\ next \notin KeyPlaces
      BY <3>1 DEF KeyPlaces
    <3>4. QED
      BY <2>1, <3>1, <3>2, <3>3, SeparatorStep
  <2>6. CASE Colon
    <3>1. /\ ~in_string /\ string = "none" /\ next = "colon" /\ next' = "value"
          /\ UNCHANGED <<nesting, string, escape, length>>
      BY <2>1, <2>6 DEF Colon, FilterInv, FilterFollowsDocument
    <3>2. ExpectKey(FALSE)
      BY <2>6, <3>1 DEF Colon, Inspect, InspectStructure
    <3>3. InObject
      BY <3>1 DEF FilterInv, Grammar, KeyPlaces
    <3>4. QED
      BY <2>1, <3>1, <3>2, <3>3, SeparatorStep
  <2>7. CASE OpenQuote
    BY <2>1, <2>7, OpenQuoteStep
  <2>8. CASE CloseQuote
    BY <2>1, <2>8, CloseQuoteStep
  <2>9. CASE StringByte
    BY <2>1, <2>9, StringByteStep
  <2>10. CASE OtherByte
    BY <2>1, <2>10, OtherByteStep
  <2>11. QED
    BY <1>2, <2>2, <2>3, <2>4, <2>5, <2>6, <2>7, <2>8, <2>9, <2>10
       DEF FilterNext, DocumentNext
<1>3. QED
  BY <1>1, <1>2

LEMMA FilterInvariant == FilterSpec => []FilterInv
<1>1. QED
  BY InitFilterInv, NextKeepsFilterInv, PTL DEF FilterSpec

(* Every variable keeps its type, for documents of any length.             *)
THEOREM TypeCorrect == FilterSpec => []FilterTypeOK
<1>1. FilterInv => FilterTypeOK
  BY DEF FilterInv
<1>2. QED
  BY <1>1, FilterInvariant, PTL

(* The flags of JsonKeyLimitReader follow the structure of every document, *)
(* however long, deep and full of escapes it is.                           *)
THEOREM FilterFollows == FilterSpec => []FilterFollowsDocument
<1>1. FilterInv => FilterFollowsDocument
  BY DEF FilterInv
<1>2. QED
  BY <1>1, FilterInvariant, PTL

(* What gets past the filter has no key and no nesting beyond the limits,  *)
(* and no document within the limits is refused.                           *)
THEOREM LimitsAreExact == FilterSpec => []RefusedExactlyBeyondLimits
<1>1. FilterInv => RefusedExactlyBeyondLimits
  BY DEF FilterInv, RefusedExactlyBeyondLimits
<1>2. QED
  BY <1>1, FilterInvariant, PTL
=============================================================================
