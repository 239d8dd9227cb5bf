---------------------------- MODULE CommandsProofs ----------------------------
(* What one run of the command line guarantees, whatever its calls report,  *)
(* however many findings a gate reports together, and whatever becomes of   *)
(* standard output.                                                         *)
EXTENDS CommandsGates

Judging == GateNames \cup {"arguments"}
Emitting == {"render", "print", "write", "flush", "return"}

EnvelopeInv ==
  /\ pc \in Judging => envelope = NoEnvelope
  /\ pc \in Emitting => envelope # NoEnvelope
  /\ envelope # NoEnvelope => Sound(envelope)
  /\ envelope.data \in {"valid", "projection"} => passed = Prefix(Len(Gates(command)))
  /\ output => pc \notin GateNames
  /\ output /\ envelope # NoEnvelope /\ ~failed => Classes(envelope.findings) = {"invalid"}
  /\ pc \notin {"finalize", "exited"} => returned = NotYet

(* Where the halves of the payload are.                                     *)
StreamInv ==
  /\ pending + delivered <= Payload
  /\ pc \in Judging \cup {"render", "print", "write"} => pending = 0 /\ delivered = 0
  /\ pc \in Judging => ~failed
  /\ pc = "print" => command # "config_import_v5_console"
  /\ pc \in {"write", "flush"} => command = "config_import_v5_console"
  /\ pc = "flush" => pending + delivered = Payload
  /\ pc \in {"return", "finalize"} /\ envelope # NoEnvelope =>
       IF command = "config_import_v5_console"
       THEN failed \/ (pending = 0 /\ delivered = Payload)
       ELSE stdout = "buffered" /\ returned # Raised => pending + delivered = Payload
  /\ pc = "finalize" /\ failed => returned \in {5, Raised}

IInv ==
  /\ TypeOK /\ WalkInv /\ EnvelopeInv /\ StreamInv
  /\ Decides(envelope, passed)
  /\ ExitMatchesFindings /\ VerdictDelivered

-----------------------------------------------------------------------------
(* The judgement.                                                           *)

(* Where the run stands is told apart by name.                              *)
LEMMA StepNames ==
  /\ \A s \in GateNames : s \in Judging /\ s \notin Emitting /\ s \notin {"finalize", "exited"}
  /\ \A s \in Emitting : s \notin Judging /\ s \notin {"finalize", "exited"}
  /\ "arguments" \notin GateNames
  /\ Steps = Judging \cup Emitting \cup {"finalize", "exited"}
  /\ "finalize" \notin Judging /\ "exited" \notin Judging
  BY DEF GateNames, Judging, Emitting, Steps

(* The order of a command's stages does not change while it runs.           *)
LEMMA DecidesAnew ==
  ASSUME command' = command, NEW e, Decides(e, passed'), envelope' = e
  PROVE  Decides(envelope, passed)'
  <1>1. \A gate : StageDone(gate)' = StageDone(gate)
    BY DEF StageDone
  <1>2. \A stage : Rank(stage)' = Rank(stage)
    BY DEF Rank, StageOrder
  <1>3. QED
    BY <1>1, <1>2 DEF Decides, Belongs

LEMMA DecidesStays ==
  ASSUME UNCHANGED <<command, envelope, passed>>, Decides(envelope, passed)
  PROVE  Decides(envelope, passed)'
  BY DecidesAnew

LEMMA NothingDecided ==
  ASSUME NEW e, e.status \notin {"invalid", "blocked"}, NEW done
  PROVE  Decides(e, done)
  BY DEF Decides

(* A run that ends its judgement with an envelope.                          *)
LEMMA DeliverKeeps ==
  ASSUME IInv, NEW e, pc \in Judging, Deliver(e), Sound(e),
         UNCHANGED <<invocation, ending, stream>>,
         profile' \in {"none", "torq-v5-6-live", "torq-v5-repo-compat"},
         \E i \in 0..Len(Gates(command)) : passed' = Prefix(i),
         passed' \subseteq GateNames,
         e.data \in {"valid", "projection"} => passed' = Prefix(Len(Gates(command))),
         output => Classes(e.findings) = {"invalid"},
         Decides(e, passed')
  PROVE  IInv'
  <1>1. /\ UNCHANGED <<command, effective, output, stdout, failed, returned, exit, sink, pending, delivered>>
        /\ envelope' = e /\ pc' = "render" /\ e # NoEnvelope
    BY SoundIsSomething DEF Deliver, invocation, ending, stream
  <1>2. TypeOK'
    BY <1>1 DEF IInv, TypeOK, Sound, Steps
  <1>3. WalkInv'
    <2>1. pc' \notin GateNames
      BY <1>1 DEF GateNames
    <2>2. \A i : Prefix(i)' = Prefix(i)
      BY <1>1 DEF Prefix
    <2>3. QED
      BY <1>1, <2>1, <2>2 DEF WalkInv
  <1>4. EnvelopeInv'
    <2>1. Sound(e)'
      BY <1>1 DEF Sound
    <2>2. Prefix(Len(Gates(command)))' = Prefix(Len(Gates(command)))
      BY <1>1 DEF Prefix
    <2>3. returned = NotYet
      BY StepNames DEF IInv, EnvelopeInv
    <2>4. pc' \notin Judging /\ pc' \notin GateNames /\ pc' \notin {"finalize", "exited"}
      BY <1>1 DEF Judging, GateNames
    <2>5. QED
      BY <1>1, <2>1, <2>2, <2>3, <2>4 DEF EnvelopeInv
  <1>5. StreamInv'
    <2>1. pending = 0 /\ delivered = 0
      BY DEF IInv, StreamInv
    <2>2. pc' \notin Judging
      BY <1>1 DEF Judging, GateNames
    <2>3. QED
      BY <1>1, <2>1, <2>2 DEF StreamInv, Payload
  <1>6. ExitMatchesFindings'
    <2>1. returned' = 256
      BY <1>1, StepNames DEF IInv, EnvelopeInv, NotYet
    <2>2. QED
      BY <2>1 DEF ExitMatchesFindings, ExitCodes
  <1>7. VerdictDelivered'
    BY <1>1 DEF VerdictDelivered
  <1>8. Decides(envelope, passed)'
    BY <1>1, DecidesAnew
  <1>9. QED
    BY <1>2, <1>3, <1>4, <1>5, <1>6, <1>7, <1>8 DEF IInv

(* A run that goes on to a gate.                                            *)
LEMMA OnwardKeeps ==
  ASSUME IInv, pc \in Judging, pc' \in GateNames, WalkInv', passed' \subseteq GateNames, ~output,
         UNCHANGED <<invocation, ending, stream, envelope>>,
         profile' \in {"none", "torq-v5-6-live", "torq-v5-repo-compat"}
  PROVE  IInv'
  <1>1. UNCHANGED <<command, effective, output, stdout, failed, returned, exit, sink, pending, delivered>>
    BY DEF invocation, ending, stream
  <1>2. pc' \in Judging /\ pc' \notin Emitting /\ pc' \notin {"finalize", "exited"}
    BY StepNames
  <1>3. TypeOK'
    BY <1>1 DEF IInv, TypeOK, Steps
  <1>4. EnvelopeInv'
    <2>1. envelope' = NoEnvelope /\ returned' = NotYet
      BY <1>1, StepNames DEF IInv, EnvelopeInv
    <2>2. envelope'.data = "none"
      BY <2>1 DEF NoEnvelope
    <2>3. QED
      BY <1>1, <1>2, <2>1, <2>2 DEF EnvelopeInv
  <1>5. StreamInv'
    <2>1. pending = 0 /\ delivered = 0 /\ ~failed
      BY DEF IInv, StreamInv
    <2>2. pc' \notin {"print", "write", "flush", "return", "finalize"}
      BY <1>2 DEF Emitting
    <2>3. QED
      BY <1>1, <2>1, <2>2 DEF StreamInv, Payload
  <1>6. ExitMatchesFindings'
    <2>1. returned' = 256
      BY <1>1, StepNames DEF IInv, EnvelopeInv, NotYet
    <2>2. QED
      BY <2>1 DEF ExitMatchesFindings, ExitCodes
  <1>7. VerdictDelivered'
    BY <1>2 DEF VerdictDelivered
  <1>8. Decides(envelope, passed)'
    <2>1. envelope = NoEnvelope
      BY DEF IInv, EnvelopeInv
    <2>2. envelope.status = "none"
      BY <2>1 DEF NoEnvelope
    <2>3. Decides(envelope, passed')
      BY <2>2, NothingDecided
    <2>4. QED
      BY <1>1, <2>3, DecidesAnew
  <1>9. QED
    BY <1>3, <1>4, <1>5, <1>6, <1>7, <1>8 DEF IInv

LEMMA GateKeeps == ASSUME IInv, Gate PROVE IInv'
  <1>1. command \in AllCommands /\ passed \subseteq GateNames /\ TypeOK /\ WalkInv
    BY DEF IInv, TypeOK
  <1>2. /\ UNCHANGED <<invocation, ending, stream>>
        /\ pc \in GateNames
        /\ profile' \in {"none", "torq-v5-6-live", "torq-v5-repo-compat"}
    BY <1>1, GateFrame
  <1>3. ~output /\ pc \in Judging
    BY <1>2, StepNames DEF IInv, EnvelopeInv
  <1>4. CASE Pass(pc)
    <2>1. command' = command
      BY <1>2 DEF invocation
    <2>2. WalkInv' /\ pc' \in GateNames /\ passed' = passed \cup {pc}
      BY <1>1, <1>2, <1>4, <2>1, PassStep
    <2>3. passed' \subseteq GateNames
      BY <1>1, <1>2, <2>2
    <2>4. UNCHANGED envelope
      BY <1>4 DEF Pass
    <2>5. QED
      BY <1>2, <1>3, <2>2, <2>3, <2>4, OnwardKeeps
  <1>5. ASSUME NEW e, RefusedWith(e) PROVE IInv'
    <2>1. /\ Deliver(e) /\ Sound(e) /\ passed' = passed /\ e.data \notin {"valid", "projection"}
          /\ Decides(e, passed)
      BY <1>5 DEF RefusedWith, Refuse
    <2>2. \E i \in 0..Len(Gates(command)) : passed' = Prefix(i)
      BY <1>1, <2>1 DEF WalkInv
    <2>3. Decides(e, passed')
      BY <2>1
    <2>4. QED
      BY <1>1, <1>2, <1>3, <2>1, <2>2, <2>3, DeliverKeeps
  <1>6. ASSUME NEW e, AcceptedWith(e) PROVE IInv'
    <2>1. Deliver(e) /\ Sound(e) /\ passed' = passed \cup {pc} /\ pc \in {"oracle", "project"}
      BY <1>6 DEF AcceptedWith
    <2>2. passed' = Prefix(Len(Gates(command)))
      BY <1>1, <1>2, <2>1, GateOfCommand
    <2>3. Len(Gates(command)) \in 0..Len(Gates(command))
      BY <1>1, GateFacts
    <2>4. passed' \subseteq GateNames
      BY <1>1, <1>2, <2>1
    <2>5. Decides(e, passed')
      BY <1>6, NothingDecided DEF AcceptedWith
    <2>6. QED
      BY <1>2, <1>3, <2>1, <2>2, <2>3, <2>4, <2>5, DeliverKeeps
  <1>7. QED
    BY <1>1, <1>2, <1>4, <1>5, <1>6, GateTakesStep DEF GateStep, AtGate

LEMMA ArgumentsKeep == ASSUME IInv, ParseArguments PROVE IInv'
  <1>1. /\ pc = "arguments" /\ pc \in Judging /\ command \in AllCommands /\ profile' = profile
        /\ UNCHANGED <<invocation, passed, failed, exit, stream>>
    BY DEF ParseArguments, Judging, IInv, TypeOK
  <1>2. profile' \in {"none", "torq-v5-6-live", "torq-v5-repo-compat"} /\ passed' \subseteq GateNames
    BY <1>1 DEF IInv, TypeOK
  <1>3. Len(Gates(command)) \in Nat /\ 0 \in 0..Len(Gates(command)) /\ 0 < Len(Gates(command))
    BY <1>1, GateFacts
  <1>4. passed = Prefix(0)
    BY <1>1 DEF IInv, WalkInv
  <1>5. ASSUME NEW id \in {"legacy_config_projection_invalid", "console_config_projection_invalid"},
               Deliver(Failure("null", {id}, FALSE)), UNCHANGED returned
        PROVE  IInv'
    <2> DEFINE e == Failure("null", {id}, FALSE)
    <2>1. {id} \in SUBSET FindingIds
      BY ImporterFindings, StagesNamed, StageIds
    <2>2. Sound(e) /\ e.data = "none"
      BY <2>1, FailureSound
    <2>3. Classes(e.findings) = {"invalid"}
      BY ImporterFindings, InvalidOfStage DEF Classes, Failure, Envelope
    <2>4. UNCHANGED <<invocation, ending, stream>>
      BY <1>1, <1>5 DEF ending
    <2>5. \E j \in 0..Len(Gates(command)) : passed' = Prefix(j)
      BY <1>1, <1>3, <1>4
    <2>6. Deliver(e) /\ Decides(e, passed')
      BY <1>5 DEF Decides, Failure, Envelope
    <2> HIDE DEF e
    <2>7. e.data \notin {"valid", "projection"}
      BY <2>2
    <2>8. QED
      BY <1>1, <1>2, <2>2, <2>3, <2>4, <2>5, <2>6, <2>7, DeliverKeeps
  <1>6. ASSUME ~output, pc' = Head(Gates(command)), UNCHANGED <<envelope, returned>>
        PROVE  IInv'
    <2>1. pc' = Gates(command)[1] /\ pc' \in GateNames
      BY <1>1, <1>3, <1>6, GateFacts DEF GateNames
    <2>2. WalkInv'
      <3>1. command' = command /\ passed' = Prefix(0) /\ pc' # "arguments"
        BY <1>1, <1>4, <2>1 DEF invocation, GateNames
      <3>2. Prefix(0)' = Prefix(0) /\ Gates(command)' = Gates(command)
        BY <3>1 DEF Prefix
      <3>3. QED
        BY <1>3, <2>1, <3>1, <3>2 DEF WalkInv
    <2>3. UNCHANGED <<invocation, ending, stream, envelope>>
      BY <1>1, <1>6 DEF ending
    <2>4. QED
      BY <1>1, <1>2, <1>6, <2>1, <2>2, <2>3, OnwardKeeps
  <1>7. ASSUME pc' = "finalize", returned' = 2, UNCHANGED envelope
        PROVE  IInv'
    <2>1. UNCHANGED <<command, effective, output, stdout, passed, profile, envelope, failed, exit,
                      sink, pending, delivered>>
      BY <1>1, <1>7 DEF invocation, stream
    <2>2. pending = 0 /\ delivered = 0 /\ envelope = NoEnvelope /\ ~failed
      BY <1>1 DEF IInv, StreamInv, EnvelopeInv
    <2>3. TypeOK'
      BY <1>7, <2>1 DEF IInv, TypeOK, Steps, ExitCodes
    <2>4. WalkInv'
      <3>1. Prefix(0)' = Prefix(0) /\ Gates(command)' = Gates(command)
        BY <2>1 DEF Prefix
      <3>2. QED
        BY <1>3, <1>4, <1>7, <2>1, <3>1 DEF WalkInv, GateNames
    <2>5. EnvelopeInv'
      <3>1. NoEnvelope.data = "none"
        BY DEF NoEnvelope
      <3>2. QED
        BY <1>7, <2>1, <2>2, <3>1 DEF EnvelopeInv, Judging, Emitting, GateNames
    <2>6. StreamInv'
      BY <1>7, <2>1, <2>2 DEF StreamInv, Payload, Judging, GateNames
    <2>7. ExitMatchesFindings' /\ VerdictDelivered'
      BY <1>7, <2>1, <2>2 DEF ExitMatchesFindings, VerdictDelivered
    <2>8. Decides(envelope, passed)'
      BY <2>1, DecidesStays DEF IInv
    <2>9. QED
      BY <2>3, <2>4, <2>5, <2>6, <2>7, <2>8 DEF IInv
  <1>8. QED
    BY <1>5, <1>6, <1>7 DEF ParseArguments

-----------------------------------------------------------------------------
(* The output.                                                              *)

(* A step of the output that leaves the judgement, its envelope and what    *)
(* main returned alone.                                                     *)
LEMMA OutputKeeps ==
  ASSUME IInv, pc \in Emitting, pc' \in Emitting \cup {"finalize"},
         UNCHANGED <<invocation, judgement, exit>>,
         failed' \in BOOLEAN, failed => failed',
         pc' # "finalize" => returned' = returned,
         returned' \in ExitCodes \cup {NotYet, Raised},
         pending' \in 0..Payload, delivered' \in 0..Payload, sink' \in {"open", "broken"},
         StreamInv', ExitMatchesFindings'
  PROVE  IInv'
  <1>1. UNCHANGED <<command, effective, output, stdout, passed, profile, envelope, exit>>
    BY DEF invocation, judgement
  <1>2. pc' \notin GateNames /\ pc' \notin Judging /\ pc' # "arguments" /\ pc' # "exited" /\ pc' \in Steps
    BY DEF Emitting, GateNames, Judging, Steps
  <1>3. TypeOK'
    BY <1>1, <1>2 DEF IInv, TypeOK
  <1>4. WalkInv'
    <2>1. \A i : Prefix(i)' = Prefix(i)
      BY <1>1 DEF Prefix
    <2>2. QED
      BY <1>1, <1>2, <2>1 DEF IInv, WalkInv
  <1>5. EnvelopeInv'
    <2>1. Sound(envelope)' = Sound(envelope)
      BY <1>1 DEF Sound
    <2>2. Prefix(Len(Gates(command)))' = Prefix(Len(Gates(command)))
      BY <1>1 DEF Prefix
    <2>3. envelope # NoEnvelope /\ returned = NotYet
      BY StepNames DEF IInv, EnvelopeInv
    <2>4. QED
      BY <1>1, <1>2, <2>1, <2>2, <2>3 DEF IInv, EnvelopeInv
  <1>6. VerdictDelivered'
    BY <1>2 DEF VerdictDelivered
  <1>7. Decides(envelope, passed)'
    BY <1>1, DecidesStays DEF IInv
  <1>8. QED
    BY <1>3, <1>4, <1>5, <1>6, <1>7 DEF IInv

(* Until main returns, its result agrees with any findings.                 *)
LEMMA NothingReturned ==
  ASSUME returned' \in {NotYet, Raised}
  PROVE  ExitMatchesFindings'
  BY DEF ExitMatchesFindings, ExitCodes, NotYet, Raised

LEMMA PrintKeeps == ASSUME IInv, PrintEnvelope PROVE IInv'
  <1>1. /\ pc = "print" /\ pc \in Emitting /\ UNCHANGED <<invocation, judgement, failed, exit, sink>>
        /\ pc' \in {"return", "finalize"}
    BY DEF PrintEnvelope, Emitting
  <1>2. /\ returned = NotYet /\ pending = 0 /\ delivered = 0 /\ envelope # NoEnvelope
        /\ command # "config_import_v5_console" /\ failed \in BOOLEAN /\ sink \in {"open", "broken"}
    BY <1>1 DEF IInv, EnvelopeInv, StreamInv, TypeOK, Emitting
  <1>3. /\ returned' \in {NotYet, Raised} /\ (pc' # "finalize" => returned' = returned)
        /\ pc' = "finalize" => returned' = Raised
    BY <1>2 DEF PrintEnvelope
  <1>4. /\ pending' \in 0..Payload /\ delivered' \in 0..Payload /\ pending' + delivered' <= Payload
        /\ stdout = "buffered" => pending' + delivered' = Payload
    BY <1>2 DEF PrintEnvelope, Payload
  <1>5. StreamInv'
    BY <1>1, <1>2, <1>3, <1>4 DEF StreamInv, invocation, judgement, Judging, GateNames
  <1>6. pc' \in Emitting \cup {"finalize"}
    BY <1>1 DEF Emitting
  <1>7. QED
    BY <1>1, <1>2, <1>3, <1>4, <1>5, <1>6, NothingReturned, OutputKeeps

LEMMA WriteKeeps == ASSUME IInv, Write PROVE IInv'
  <1>1. /\ pc = "write" /\ pc \in Emitting /\ UNCHANGED <<invocation, judgement, returned, exit, sink>>
        /\ pc' \in {"return", "flush"}
    BY DEF Write, Emitting
  <1>2. /\ returned = NotYet /\ pending = 0 /\ delivered = 0 /\ envelope # NoEnvelope
        /\ command = "config_import_v5_console" /\ failed \in BOOLEAN /\ sink \in {"open", "broken"}
    BY <1>1 DEF IInv, EnvelopeInv, StreamInv, TypeOK, Emitting
  <1>3. /\ failed' \in BOOLEAN /\ (failed => failed')
        /\ pending' \in 0..Payload /\ delivered' \in 0..Payload /\ pending' + delivered' <= Payload
        /\ pc' = "flush" => pending' + delivered' = Payload
        /\ pc' = "return" => failed'
    <2>1. \/ UNCHANGED failed /\ pc' = "flush"
          \/ failed' = TRUE
      BY DEF Write
    <2>2. /\ pending' \in 0..Payload /\ delivered' \in 0..Payload /\ pending' + delivered' <= Payload
          /\ pc' = "flush" => pending' + delivered' = Payload
      BY <1>2 DEF Write, Payload
    <2>3. failed' \in BOOLEAN /\ (failed => failed') /\ (pc' = "return" => failed')
      BY <1>2, <2>1
    <2>4. QED
      BY <2>2, <2>3
  <1>4. StreamInv'
    BY <1>1, <1>2, <1>3 DEF StreamInv, invocation, judgement, Judging, GateNames
  <1>5. pc' \in Emitting \cup {"finalize"} /\ pc' # "finalize"
    BY <1>1 DEF Emitting
  <1>6. QED
    BY <1>1, <1>2, <1>3, <1>4, <1>5, NothingReturned, OutputKeeps

LEMMA FlushKeeps == ASSUME IInv, Flush PROVE IInv'
  <1>1. /\ pc = "flush" /\ pc \in Emitting /\ UNCHANGED <<invocation, judgement, returned, exit, sink>>
        /\ pc' = "return"
    BY DEF Flush, Emitting
  <1>2. /\ returned = NotYet /\ pending + delivered = Payload /\ envelope # NoEnvelope
        /\ pending \in 0..Payload /\ delivered \in 0..Payload
        /\ command = "config_import_v5_console" /\ failed \in BOOLEAN /\ sink \in {"open", "broken"}
    BY <1>1 DEF IInv, EnvelopeInv, StreamInv, TypeOK, Emitting
  <1>3. /\ failed' \in BOOLEAN /\ (failed => failed')
        /\ pending' \in 0..Payload /\ delivered' \in 0..Payload /\ pending' + delivered' <= Payload
        /\ failed' \/ (pending' = 0 /\ delivered' = Payload)
    <2>1. CASE pending > 0 /\ sink = "broken"
      <3>1. failed' = TRUE /\ UNCHANGED <<pending, delivered>>
        BY <2>1 DEF Flush
      <3>2. QED
        BY <1>2, <3>1
    <2>2. CASE ~(pending > 0 /\ sink = "broken")
      <3>1. UNCHANGED failed /\ pending' = 0 /\ delivered' = delivered + pending
        BY <2>2 DEF Flush
      <3>2. delivered' = Payload
        BY <1>2, <3>1 DEF Payload
      <3>3. QED
        BY <1>2, <3>1, <3>2 DEF Payload
    <2>3. QED
      BY <2>1, <2>2
  <1>4. StreamInv'
    BY <1>1, <1>2, <1>3 DEF StreamInv, invocation, judgement, Judging, GateNames
  <1>5. pc' \in Emitting \cup {"finalize"} /\ pc' # "finalize"
    BY <1>1 DEF Emitting
  <1>6. QED
    BY <1>1, <1>2, <1>3, <1>4, <1>5, NothingReturned, OutputKeeps

(* An envelope that cannot be rendered is replaced by a sound one.          *)
LEMMA RenderedKeeps == ASSUME IInv, Render, pc' # "finalize" PROVE IInv'
  <1>1. /\ pc = "render"
        /\ UNCHANGED <<invocation, passed, profile, returned, exit, stream>>
        /\ pc' = IF command = "config_import_v5_console" THEN "write" ELSE "print"
    BY DEF Render
  <1>2. UNCHANGED <<command, effective, output, stdout, passed, profile, returned, exit, sink, pending, delivered>>
    BY <1>1 DEF invocation, stream
  <1>3. /\ pc' \notin Judging /\ pc' \notin GateNames /\ pc' \in Steps
        /\ pc' \notin {"arguments", "flush", "return", "finalize", "exited"}
    BY <1>1 DEF Judging, GateNames, Steps
  <1>4. returned = NotYet /\ pending = 0 /\ delivered = 0 /\ envelope # NoEnvelope /\ Sound(envelope)
    BY <1>1 DEF IInv, EnvelopeInv, StreamInv, Emitting
  <1>5. \/ UNCHANGED <<envelope, failed>>
        \/ /\ Sound(envelope') /\ envelope'.data = "none" /\ failed' = TRUE
           /\ envelope'.status = "internal_error"
    BY InternalErrorSound DEF Render
  <1>6. Sound(envelope')
    BY <1>4, <1>5
  <1>7. TypeOK'
    <2>1. failed' \in BOOLEAN
      BY <1>5 DEF IInv, TypeOK
    <2>2. envelope' \in Envelopes
      BY <1>6 DEF Sound
    <2>3. QED
      BY <1>2, <1>3, <2>1, <2>2 DEF IInv, TypeOK
  <1>8. WalkInv'
    <2>1. \A i : Prefix(i)' = Prefix(i)
      BY <1>2 DEF Prefix
    <2>2. QED
      BY <1>2, <1>3, <2>1 DEF IInv, WalkInv
  <1>9. EnvelopeInv'
    <2>1. Prefix(Len(Gates(command)))' = Prefix(Len(Gates(command)))
      BY <1>2 DEF Prefix
    <2>2. Sound(envelope)' /\ envelope' # NoEnvelope
      BY <1>2, <1>6, SoundIsSomething DEF Sound
    <2>3. envelope'.data \in {"valid", "projection"} => passed' = Prefix(Len(Gates(command)))'
      BY <1>2, <1>5, <2>1 DEF IInv, EnvelopeInv
    <2>4. output' /\ ~failed' => Classes(envelope'.findings) = {"invalid"}
      BY <1>2, <1>4, <1>5 DEF IInv, EnvelopeInv
    <2>5. QED
      BY <1>2, <1>3, <1>4, <2>2, <2>3, <2>4 DEF EnvelopeInv
  <1>10. StreamInv'
    BY <1>1, <1>2, <1>3, <1>4 DEF StreamInv, Payload
  <1>11. ExitMatchesFindings'
    BY <1>2, <1>4, NothingReturned
  <1>12. VerdictDelivered'
    BY <1>3 DEF VerdictDelivered
  <1>13. Decides(envelope, passed)'
    <2>1. CASE UNCHANGED envelope
      BY <1>2, <2>1, DecidesStays DEF IInv
    <2>2. CASE envelope'.status = "internal_error"
      BY <2>2 DEF Decides
    <2>3. QED
      BY <1>5, <2>1, <2>2
  <1>14. QED
    BY <1>7, <1>8, <1>9, <1>10, <1>11, <1>12, <1>13 DEF IInv

(* What json.dumps raises leaves main before anything is written.           *)
LEMMA RenderKeeps == ASSUME IInv, Render PROVE IInv'
  <1>1. CASE pc' # "finalize"
    BY <1>1, RenderedKeeps
  <1>2. CASE pc' = "finalize"
    <2>1. /\ pc = "render" /\ pc \in Emitting /\ Unprintable /\ returned' = Raised
          /\ UNCHANGED <<invocation, judgement, failed, exit, stream>>
      BY <1>2 DEF Render, Emitting, judgement
    <2>2. /\ pending = 0 /\ delivered = 0 /\ failed \in BOOLEAN /\ sink \in {"open", "broken"}
          /\ command # "config_import_v5_console"
      BY <2>1 DEF IInv, StreamInv, TypeOK, Unprintable, Resolvers
    <2>3. UNCHANGED <<command, failed, sink, pending, delivered>>
      BY <2>1 DEF invocation, stream
    <2>4. StreamInv'
      BY <1>2, <2>1, <2>2, <2>3 DEF StreamInv, Payload, Judging, GateNames
    <2>5. QED
      BY <1>2, <2>1, <2>2, <2>3, <2>4, NothingReturned, OutputKeeps DEF Payload
  <1>3. QED
    BY <1>1, <1>2

-----------------------------------------------------------------------------
(* The exit status.                                                         *)

LEMMA SeverityOrder ==
  /\ Severity(0) = 1 /\ Severity(4) = 2 /\ Severity(3) = 3 /\ Severity(2) = 4 /\ Severity(5) = 5
  <1>1. \A i \in 1..5 : i = 1 \/ i = 2 \/ i = 3 \/ i = 4 \/ i = 5
    OBVIOUS
  <1> DEFINE codes == <<0, 4, 3, 2, 5>>
  <1>2. codes[1] = 0 /\ codes[2] = 4 /\ codes[3] = 3 /\ codes[4] = 2 /\ codes[5] = 5
    OBVIOUS
  <1>3. \A code : Severity(code) = CHOOSE i \in 1..5 : codes[i] = code
    BY DEF Severity
  <1> HIDE DEF codes
  <1>4. \A i, j \in 1..5 : codes[i] = codes[j] => i = j
    BY <1>1, <1>2
  <1>5. \A j \in 1..5 : Severity(codes[j]) = j
    <2>1. TAKE j \in 1..5
    <2>2. (CHOOSE i \in 1..5 : codes[i] = codes[j]) = j
      BY <1>4
    <2>3. QED
      BY <1>3, <2>2
  <1>6. 1 \in 1..5 /\ 2 \in 1..5 /\ 3 \in 1..5 /\ 4 \in 1..5 /\ 5 \in 1..5
    OBVIOUS
  <1>7. QED
    BY <1>2, <1>5, <1>6

LEMMA CatalogExitValues ==
  ASSUME NEW id
  PROVE  /\ StatusClass(id) = "internal_error" => CatalogExit(id) = 5
         /\ StatusClass(id) = "invalid" => CatalogExit(id) = 2
         /\ StatusClass(id) = "blocked" => CatalogExit(id) = 3
         /\ StatusClass(id) = "unattested" => CatalogExit(id) = IF effective THEN 4 ELSE 0
         /\ StatusClass(id) = "ok" => CatalogExit(id) = 0
  BY DEF CatalogExit

(* The status of the worst finding gives its exit code.                     *)
LEMMA WorstFindingDecides ==
  ASSUME effective \in BOOLEAN, NEW e, Sound(e),
         NEW code, code = IF e.status = "internal_error" THEN 5
                          ELSE ExitCodeFor(e.status, effective, e.findings)
  PROVE  /\ code \in {0, 2, 3, 4, 5}
         /\ code \in {0} \cup {CatalogExit(id) : id \in e.findings}
         /\ \A id \in e.findings : Severity(CatalogExit(id)) <= Severity(code)
  <1> DEFINE classes == Classes(e.findings)
  <1>1. e.status = Status(e.findings, "ok")
    BY DEF Sound
  <1>2. \A id \in e.findings : StatusClass(id) \in classes
    BY DEF Classes
  <1>3. \A class \in classes : \E id \in e.findings : StatusClass(id) = class
    BY DEF Classes
  <1>4. \A id \in e.findings :
          CatalogExit(id) \in {0, 2, 3, 4, 5} /\ Severity(CatalogExit(id)) \in 1..5
    BY StatusClassType, CatalogExitValues, SeverityOrder
  <1>5. CASE "internal_error" \in classes
    <2>1. code = 5
      BY <1>1, <1>5 DEF Status
    <2>2. \E id \in e.findings : CatalogExit(id) = 5
      BY <1>3, <1>5, CatalogExitValues
    <2>3. QED
      BY <1>4, <2>1, <2>2, SeverityOrder
  <1>6. CASE "internal_error" \notin classes /\ "invalid" \in classes
    <2>1. e.status = "invalid"
      BY <1>1, <1>6 DEF Status
    <2>2. code = 2
      BY <1>6, <2>1 DEF ExitCodeFor
    <2>3. \E id \in e.findings : CatalogExit(id) = 2
      BY <1>3, <1>6, CatalogExitValues
    <2>4. \A id \in e.findings : CatalogExit(id) \in {0, 2, 3, 4}
      BY <1>2, <1>6, StatusClassType, CatalogExitValues
    <2>5. QED
      BY <2>2, <2>3, <2>4, SeverityOrder
  <1>7. CASE /\ "internal_error" \notin classes /\ "invalid" \notin classes /\ "blocked" \in classes
    <2>1. e.status = "blocked"
      BY <1>1, <1>7 DEF Status
    <2>2. code = 3
      BY <1>7, <2>1 DEF ExitCodeFor
    <2>3. \E id \in e.findings : CatalogExit(id) = 3
      BY <1>3, <1>7, CatalogExitValues
    <2>4. \A id \in e.findings : CatalogExit(id) \in {0, 3, 4}
      BY <1>2, <1>7, StatusClassType, CatalogExitValues
    <2>5. QED
      BY <2>2, <2>3, <2>4, SeverityOrder
  <1>8. CASE /\ "internal_error" \notin classes /\ "invalid" \notin classes /\ "blocked" \notin classes
             /\ "unattested" \in classes
    <2>1. e.status = "unattested"
      BY <1>1, <1>8 DEF Status
    <2>2. code = IF effective THEN 4 ELSE 0
      BY <1>8, <2>1 DEF ExitCodeFor
    <2>3. \E id \in e.findings : CatalogExit(id) = IF effective THEN 4 ELSE 0
      BY <1>3, <1>8, CatalogExitValues
    <2>4. \A id \in e.findings : CatalogExit(id) \in {0, IF effective THEN 4 ELSE 0}
      BY <1>2, <1>8, StatusClassType, CatalogExitValues
    <2>5. QED
      BY <2>2, <2>3, <2>4, SeverityOrder
  <1>9. CASE /\ "internal_error" \notin classes /\ "invalid" \notin classes /\ "blocked" \notin classes
             /\ "unattested" \notin classes
    <2>1. e.status = "ok"
      BY <1>1, <1>9 DEF Status
    <2>2. code = 0
      BY <1>9, <2>1 DEF ExitCodeFor
    <2>3. \A id \in e.findings : CatalogExit(id) = 0
      BY <1>2, <1>9, StatusClassType, CatalogExitValues
    <2>4. QED
      BY <2>2, <2>3, SeverityOrder
  <1>10. QED
    BY <1>5, <1>6, <1>7, <1>8, <1>9

LEMMA ReturnKeeps == ASSUME IInv, Return PROVE IInv'
  <1>1. /\ pc = "return" /\ pc \in Emitting /\ UNCHANGED <<invocation, judgement, failed, exit, stream>>
        /\ pc' = "finalize"
    BY DEF Return, Emitting
  <1>2. UNCHANGED <<command, effective, output, stdout, passed, profile, envelope, sink, pending, delivered>>
    BY <1>1 DEF invocation, judgement, stream
  <1>3. /\ Sound(envelope) /\ envelope # NoEnvelope /\ effective \in BOOLEAN /\ failed \in BOOLEAN
        /\ output /\ ~failed => Classes(envelope.findings) = {"invalid"}
        /\ returned = NotYet
    BY <1>1 DEF IInv, EnvelopeInv, TypeOK, Emitting
  <1> DEFINE code == IF envelope.status = "internal_error" THEN 5
                     ELSE ExitCodeFor(envelope.status, effective, envelope.findings)
  <1>4. CASE failed
    <2>1. returned' = 5
      BY <1>4 DEF Return
    <2>2. ExitMatchesFindings'
      BY <1>1, <1>4, <2>1 DEF ExitMatchesFindings
    <2>3. QED
      <3>1. StreamInv'
        BY <1>1, <1>2, <1>3, <2>1 DEF IInv, StreamInv, Judging, GateNames, NotYet, Raised
      <3>2. pending' \in 0..Payload /\ delivered' \in 0..Payload /\ sink' \in {"open", "broken"}
        BY <1>2 DEF IInv, TypeOK
      <3>3. failed' \in BOOLEAN /\ (failed => failed') /\ returned' \in ExitCodes \cup {NotYet, Raised}
        BY <1>1, <1>3, <2>1 DEF ExitCodes
      <3>4. QED
        BY <1>1, <2>2, <3>1, <3>2, <3>3, OutputKeeps
  <1>5. CASE ~failed
    <2>1. returned' = code
      <3>1. CASE output /\ envelope.status # "internal_error"
        <4>1. Status(envelope.findings, "ok") = "invalid"
          BY <1>3, <1>5, <3>1 DEF Status
        <4>2. envelope.status = "invalid"
          BY <1>3, <4>1 DEF Sound
        <4>3. ExitCodeFor(envelope.status, effective, envelope.findings) = 2
          BY <1>3, <1>5, <3>1, <4>2 DEF ExitCodeFor
        <4>4. QED
          BY <1>5, <3>1, <4>3 DEF Return
      <3>2. CASE ~output /\ envelope.status # "internal_error"
        BY <1>5, <3>2 DEF Return
      <3>3. CASE envelope.status = "internal_error"
        BY <3>3 DEF Return
      <3>4. QED
        BY <3>1, <3>2, <3>3
    <2>2. /\ code \in {0, 2, 3, 4, 5}
          /\ code \in {0} \cup {CatalogExit(id) : id \in envelope.findings}
          /\ \A id \in envelope.findings : Severity(CatalogExit(id)) <= Severity(code)
      BY <1>3, WorstFindingDecides
    <2> HIDE DEF code
    <2>3. ExitMatchesFindings'
      <3>1. \A id : CatalogExit(id)' = CatalogExit(id)
        BY <1>2 DEF CatalogExit
      <3>2. failed' = FALSE
        BY <1>1, <1>3, <1>5
      <3>3. QED
        BY <1>2, <2>1, <2>2, <3>1, <3>2 DEF ExitMatchesFindings
    <2>4. StreamInv'
      BY <1>1, <1>2, <1>3, <1>5 DEF IInv, StreamInv, Judging, GateNames, NotYet, Raised
    <2>5. pending' \in 0..Payload /\ delivered' \in 0..Payload /\ sink' \in {"open", "broken"}
      BY <1>2 DEF IInv, TypeOK
    <2>6. failed' \in BOOLEAN /\ (failed => failed') /\ returned' \in ExitCodes \cup {NotYet, Raised}
      BY <1>1, <1>3, <2>1, <2>2 DEF ExitCodes
    <2>7. QED
      BY <1>1, <2>3, <2>4, <2>5, <2>6, OutputKeeps
  <1>6. QED
    BY <1>3, <1>4, <1>5

LEMMA FinalizeKeeps == ASSUME IInv, Finalize PROVE IInv'
  <1>1. /\ pc = "finalize" /\ UNCHANGED <<invocation, judgement, failed, returned, sink>> /\ pc' = "exited"
    BY DEF Finalize
  <1>2. UNCHANGED <<command, effective, output, stdout, passed, profile, envelope, failed, returned, sink>>
    BY <1>1 DEF invocation, judgement
  <1>3. pc' \notin GateNames /\ pc' \notin Judging /\ pc' \notin Emitting /\ pc' \in Steps
    BY <1>1 DEF GateNames, Judging, Emitting, Steps
  <1>4. /\ pending \in 0..Payload /\ delivered \in 0..Payload /\ pending + delivered <= Payload
        /\ exit' \in ExitCodes \cup {1, 120, NotYet} \cup {returned}
    <2>1. pending \in 0..Payload /\ delivered \in 0..Payload /\ pending + delivered <= Payload
      BY DEF IInv, TypeOK, StreamInv
    <2>2. exit' \in {1, 120, returned}
      BY DEF Finalize
    <2>3. QED
      BY <2>1, <2>2
  <1>5. /\ pending' \in 0..Payload /\ delivered' \in 0..Payload /\ pending' + delivered' <= Payload
        /\ \/ exit' = 120
           \/ /\ delivered' = delivered + pending
              /\ exit' = IF returned = Raised THEN 1 ELSE returned
    BY <1>4 DEF Finalize, Payload
  <1>6. TypeOK'
    <2>1. exit' \in ExitCodes \cup {1, 120, NotYet}
      BY <1>5 DEF IInv, TypeOK, Raised
    <2>2. QED
      BY <1>2, <1>3, <1>5, <2>1 DEF IInv, TypeOK
  <1>7. WalkInv'
    <2>1. \A i : Prefix(i)' = Prefix(i)
      BY <1>2 DEF Prefix
    <2>2. QED
      BY <1>1, <1>2, <1>3, <2>1 DEF IInv, WalkInv
  <1>8. EnvelopeInv'
    <2>1. Sound(envelope)' = Sound(envelope)
      BY <1>2 DEF Sound
    <2>2. Prefix(Len(Gates(command)))' = Prefix(Len(Gates(command)))
      BY <1>2 DEF Prefix
    <2>3. QED
      BY <1>1, <1>2, <1>3, <2>1, <2>2 DEF IInv, EnvelopeInv
  <1>9. StreamInv'
    BY <1>1, <1>3, <1>5 DEF StreamInv
  <1>10. ExitMatchesFindings'
    <2>1. \A id : CatalogExit(id)' = CatalogExit(id)
      BY <1>2 DEF CatalogExit
    <2>2. QED
      BY <1>2, <2>1 DEF IInv, ExitMatchesFindings
  <1>11. VerdictDelivered'
    <2>1. SUFFICES ASSUME envelope # NoEnvelope, exit' \in {0, 2, 3, 4},
                          command = "config_import_v5_console" \/ stdout = "buffered"
                   PROVE  delivered' = Payload
      BY <1>2 DEF VerdictDelivered
    <2>2. delivered' = delivered + pending /\ returned # Raised /\ exit' = returned
      BY <1>5, <2>1
    <2>3. CASE command = "config_import_v5_console"
      <3>1. ~failed
        BY <1>1, <2>1, <2>2 DEF IInv, StreamInv
      <3>2. pending = 0 /\ delivered = Payload
        BY <1>1, <2>1, <2>3, <3>1 DEF IInv, StreamInv
      <3>3. QED
        BY <2>2, <3>2 DEF Payload
    <2>4. CASE command # "config_import_v5_console" /\ stdout = "buffered"
      <3>1. pending + delivered = Payload
        BY <1>1, <2>1, <2>2, <2>4 DEF IInv, StreamInv
      <3>2. QED
        BY <1>4, <2>2, <3>1
    <2>5. QED
      BY <2>1, <2>3, <2>4
  <1>12. Decides(envelope, passed)'
    BY <1>2, DecidesStays DEF IInv
  <1>13. QED
    BY <1>6, <1>7, <1>8, <1>9, <1>10, <1>11, <1>12 DEF IInv

(* A step that leaves everything but the sink as it is.                     *)
LEMMA SinkKeeps ==
  ASSUME IInv, UNCHANGED <<invocation, judgement, ending, pc, pending, delivered>>,
         sink' \in {"open", "broken"}
  PROVE  IInv'
  <1>1. UNCHANGED <<command, effective, output, stdout, pc, passed, profile, envelope, failed, returned,
                    exit, pending, delivered>>
    BY DEF invocation, judgement, ending
  <1>2. TypeOK'
    BY <1>1 DEF IInv, TypeOK
  <1>3. WalkInv'
    <2>1. \A i : Prefix(i)' = Prefix(i)
      BY <1>1 DEF Prefix
    <2>2. QED
      BY <1>1, <2>1 DEF IInv, WalkInv
  <1>4. EnvelopeInv'
    <2>1. Sound(envelope)' = Sound(envelope)
      BY <1>1 DEF Sound
    <2>2. Prefix(Len(Gates(command)))' = Prefix(Len(Gates(command)))
      BY <1>1 DEF Prefix
    <2>3. QED
      BY <1>1, <2>1, <2>2 DEF IInv, EnvelopeInv
  <1>5. StreamInv' /\ VerdictDelivered'
    BY <1>1 DEF IInv, StreamInv, VerdictDelivered
  <1>6. ExitMatchesFindings'
    <2>1. \A id : CatalogExit(id)' = CatalogExit(id)
      BY <1>1 DEF CatalogExit
    <2>2. QED
      BY <1>1, <2>1 DEF IInv, ExitMatchesFindings
  <1>7. Decides(envelope, passed)'
    BY <1>1, DecidesStays DEF IInv
  <1>8. QED
    BY <1>2, <1>3, <1>4, <1>5, <1>6, <1>7 DEF IInv

LEMMA InitHolds == Init => IInv
  <1> SUFFICES ASSUME Init PROVE IInv
    OBVIOUS
  <1>1. /\ command \in AllCommands /\ pc = "arguments" /\ passed = {} /\ envelope = NoEnvelope
        /\ failed = FALSE /\ returned = NotYet /\ exit = NotYet /\ pending = 0 /\ delivered = 0
    BY DEF Init
  <1>2. pc \in Judging /\ pc \in Steps /\ pc \notin GateNames /\ pc \notin Emitting
    BY <1>1 DEF Judging, Steps, GateNames, Emitting
  <1>3. TypeOK
    <2>1. NoEnvelope \in Envelopes
      BY DEF NoEnvelope, Envelopes
    <2>2. effective \in BOOLEAN /\ output \in BOOLEAN
      BY DEF Init
    <2>3. /\ stdout \in {"buffered", "unbuffered", "absent"} /\ sink \in {"open", "broken"}
          /\ profile = "none"
      BY DEF Init
    <2>4. failed \in BOOLEAN
      BY <1>1
    <2>5. QED
      BY <1>1, <1>2, <2>1, <2>2, <2>3, <2>4 DEF TypeOK, Payload
  <1>4. WalkInv
    <2>1. 0 \in 0..Len(Gates(command))
      BY <1>1, GateFacts
    <2>2. Prefix(0) = {}
      BY DEF Prefix
    <2>3. QED
      BY <1>1, <1>2, <2>1, <2>2 DEF WalkInv
  <1>5. EnvelopeInv
    <2>1. NoEnvelope.data = "none"
      BY DEF NoEnvelope
    <2>2. QED
      BY <1>1, <1>2, <2>1 DEF EnvelopeInv
  <1>6. StreamInv
    BY <1>1 DEF StreamInv, Payload
  <1>7. ExitMatchesFindings /\ VerdictDelivered
    BY <1>1 DEF ExitMatchesFindings, VerdictDelivered
  <1>8. Decides(envelope, passed)
    BY <1>1, NothingDecided DEF NoEnvelope
  <1>9. QED
    BY <1>3, <1>4, <1>5, <1>6, <1>7, <1>8 DEF IInv

LEMMA StepHolds == IInv /\ [Next]_vars => IInv'
  <1> SUFFICES ASSUME IInv, [Next]_vars PROVE IInv'
    OBVIOUS
  <1>1. CASE Judge
    BY <1>1, ArgumentsKeep, GateKeeps DEF Judge, Gate
  <1>2. CASE Emit
    BY <1>2, RenderKeeps, PrintKeeps, WriteKeeps, FlushKeeps, ReturnKeeps, FinalizeKeeps DEF Emit
  <1>3. CASE SinkBreaks
    BY <1>3, SinkKeeps DEF SinkBreaks
  <1>4. CASE UNCHANGED vars
    <2>1. sink' \in {"open", "broken"}
      BY <1>4 DEF IInv, TypeOK, vars
    <2>2. UNCHANGED <<invocation, judgement, ending, pc, pending, delivered>>
      BY <1>4 DEF vars, invocation, judgement, ending
    <2>3. QED
      BY <2>1, <2>2, SinkKeeps
  <1>5. QED
    BY <1>1, <1>2, <1>3, <1>4 DEF Next

LEMMA Invariance == Spec => []IInv
  BY InitHolds, StepHolds, PTL DEF Spec

(* Every command's run is of the shape Commands declares.                   *)
THEOREM TypeCorrect == Spec => []TypeOK
  <1>1. IInv => TypeOK
    BY DEF IInv
  <1>2. QED
    BY <1>1, Invariance, PTL

(* resolve_path and both import_v5_path: nobody opens a config before the   *)
(* registry is loaded and valid, no importer before the packaged reference  *)
(* is authenticated, and a run with --output opens nothing.                 *)
THEOREM ReadingGated == Spec => []GatedReading
  <1>1. IInv => GatedReading
    <2> SUFFICES ASSUME IInv PROVE GatedReading
      OBVIOUS
    <2> DEFINE g == Gates(command)
    <2>1. command \in AllCommands
      BY DEF IInv, TypeOK
    <2>2. PICK i \in 0..Len(g) :
            /\ passed = Prefix(i)
            /\ pc \in GateNames => i < Len(g) /\ pc = g[i + 1]
      BY DEF IInv, WalkInv
    <2>3. i \in Nat /\ i <= Len(g) /\ Len(g) \in Nat /\ Len(g) >= 7
      BY <2>1, <2>2, GateFacts
    <2>4. ASSUME pc = "read" \/ "read" \in passed
          PROVE  i >= 2 /\ (command \in Importers => i >= 3)
      <3>1. CASE pc = "read"
        <4>1. i + 1 \in 1..Len(g) /\ g[i + 1] = "read"
          BY <2>2, <2>3, <3>1 DEF GateNames
        <4>2. QED
          BY <2>1, <2>3, <4>1, GateFacts
      <3>2. CASE "read" \in passed
        <4>1. PICK j \in 1..i : g[j] = "read"
          BY <2>2, <3>2 DEF Prefix
        <4>2. j \in 1..Len(g)
          BY <2>3, <4>1
        <4>3. QED
          BY <2>1, <2>3, <4>1, <4>2, GateFacts
      <3>3. QED
        BY <2>4, <3>1, <3>2
    <2>5. i >= 2 => {"load_registry", "validate_registry"} \subseteq passed
      <3>1. i >= 2 => g[1] \in passed /\ g[2] \in passed
        BY <2>2, <2>3 DEF Prefix
      <3>2. QED
        BY <2>1, <3>1, GateFacts
    <2>6. command \in Importers /\ i >= 3 => "reference" \in passed
      <3>1. i >= 3 => g[3] \in passed
        BY <2>2, <2>3 DEF Prefix
      <3>2. QED
        BY <2>1, <3>1, GateFacts
    <2>7. QED
      BY <2>4, <2>5, <2>6 DEF GatedReading, IInv, EnvelopeInv
  <1>2. QED
    BY <1>1, Invariance, PTL

(* "valid" and a projection take every call of the command; an importer     *)
(* that fails hands out nothing.                                            *)
THEOREM AcceptanceComplete == Spec => []AcceptedOnlyComplete
  <1>1. IInv => AcceptedOnlyComplete
    <2> SUFFICES ASSUME IInv PROVE AcceptedOnlyComplete
      OBVIOUS
    <2>1. Prefix(Len(Gates(command))) = {Gates(command)[i] : i \in DOMAIN Gates(command)}
      BY GateFacts DEF IInv, TypeOK, Prefix
    <2>2. command \in Importers /\ envelope.status # "ok" => envelope.data = "none"
      BY DEF IInv, EnvelopeInv, Sound, NoEnvelope
    <2>3. QED
      BY <2>1, <2>2 DEF AcceptedOnlyComplete, IInv, EnvelopeInv
  <1>2. QED
    BY <1>1, Invariance, PTL

(* "A stage finding returns immediately": the stage an envelope names comes *)
(* after all that was dealt with, and is the one the catalog gives what it  *)
(* reports.                                                                 *)
THEOREM EarliestDecides == Spec => []FirstFailureDecides
  <1>1. IInv => FirstFailureDecides
    BY DEF IInv, Decides, Belongs, FirstFailureDecides, Refused
  <1>2. QED
    BY <1>1, Invariance, PTL

(* main's result is the catalog's exit code of the worst finding in the     *)
(* envelope, or 5 when it could not be reported.                            *)
THEOREM ExitIsHonest == Spec => []ExitMatchesFindings
  <1>1. IInv => ExitMatchesFindings
    BY DEF IInv
  <1>2. QED
    BY <1>1, Invariance, PTL

(* An exit status that announces a verdict goes with the whole verdict,     *)
(* whenever and however standard output fails.                              *)
THEOREM VerdictIsWhole == Spec => []VerdictDelivered
  <1>1. IInv => VerdictDelivered
    BY DEF IInv
  <1>2. QED
    BY <1>1, Invariance, PTL

-----------------------------------------------------------------------------
(* How far a run is from its end: at most the gates from where it stands,   *)
(* and the steps of the output.                                             *)

Place(gate) == CHOOSE i \in DOMAIN Gates(command) : Gates(command)[i] = gate

StepsLeft ==
  IF pc = "arguments" THEN Len(Gates(command)) + 6
  ELSE IF pc \in GateNames THEN Len(Gates(command)) - Place(pc) + 6
  ELSE IF pc = "render" THEN 5
  ELSE IF pc \in {"print", "write"} THEN 4
  ELSE IF pc = "flush" THEN 3
  ELSE IF pc = "return" THEN 2
  ELSE IF pc = "finalize" THEN 1
  ELSE 0

Advances ==
  [][/\ Judge \/ Emit => StepsLeft' < StepsLeft
     /\ SinkBreaks => StepsLeft' = StepsLeft]_vars

StepsBounded == StepsLeft \in 0..(Len(Gates(command)) + 6)

LEMMA PlaceOfGate ==
  ASSUME command \in AllCommands, NEW i \in 1..Len(Gates(command))
  PROVE  Place(Gates(command)[i]) = i
  BY GateFacts DEF Place

LEMMA GateCounts ==
  ASSUME AtGate
  PROVE  \E i \in 1..Len(Gates(command)) :
           Place(pc) = i /\ pc = Gates(command)[i] /\ StepsLeft = Len(Gates(command)) - i + 6
  <1>1. PICK i \in 0..Len(Gates(command)) : i < Len(Gates(command)) /\ pc = Gates(command)[i + 1]
    BY DEF AtGate, WalkInv
  <1>2. i + 1 \in 1..Len(Gates(command))
    BY <1>1, GateFacts DEF AtGate
  <1>3. Place(pc) = i + 1
    BY <1>1, <1>2, PlaceOfGate DEF AtGate
  <1>4. pc # "arguments"
    BY StepNames DEF AtGate
  <1>5. StepsLeft = Len(Gates(command)) - (i + 1) + 6
    BY <1>3, <1>4 DEF StepsLeft, AtGate
  <1>6. QED
    BY <1>1, <1>2, <1>3, <1>5

LEMMA StepsLeftType == IInv => StepsBounded
  <1> SUFFICES ASSUME IInv PROVE StepsBounded
    OBVIOUS
  <1>1. command \in AllCommands /\ Len(Gates(command)) \in Nat /\ Len(Gates(command)) >= 7
    BY GateFacts DEF IInv, TypeOK
  <1>2. CASE pc \in GateNames
    BY <1>1, <1>2, GateCounts DEF StepsBounded, AtGate, IInv
  <1>3. CASE pc \notin GateNames
    BY <1>1, <1>3 DEF StepsBounded, StepsLeft
  <1>4. QED
    BY <1>2, <1>3

(* The step of a gate: the next gate, or the envelope.                      *)
LEMMA GateAdvances == ASSUME IInv, Gate PROVE StepsLeft' < StepsLeft
  <1> DEFINE gates == Gates(command)
  <1>1. command \in AllCommands /\ TypeOK /\ WalkInv
    BY DEF IInv, TypeOK
  <1>2. pc \in GateNames /\ command' = command
    BY <1>1, GateFrame DEF invocation
  <1>3. AtGate
    BY <1>1, <1>2 DEF AtGate
  <1>4. PICK i \in 1..Len(gates) : Place(pc) = i /\ pc = gates[i] /\ StepsLeft = Len(gates) - i + 6
    BY <1>3, GateCounts
  <1>5. Len(gates) \in Nat /\ i \in Nat /\ i <= Len(gates)
    BY <1>1, <1>4, GateFacts
  <1>6. CASE Pass(pc)
    <2>1. i < Len(gates) /\ pc' = gates[i + 1]
      BY <1>4, <1>6 DEF Pass, Place
    <2>2. i + 1 \in 1..Len(gates)
      BY <1>5, <2>1
    <2>3. pc' \in GateNames /\ pc' # "arguments"
      BY <1>1, <2>1, <2>2, GateFacts, StepNames
    <2>4. Place(pc') = i + 1
      BY <1>1, <2>1, <2>2, PlaceOfGate
    <2>5. \A gate : Place(gate)' = (CHOOSE k \in DOMAIN gates : gates[k] = gate)
      BY <1>2 DEF Place
    <2>6. StepsLeft' = Len(gates) - Place(pc') + 6
      BY <1>2, <2>3 DEF StepsLeft, Place
    <2>7. QED
      BY <1>4, <1>5, <2>4, <2>6
  <1>7. CASE pc' = "render"
    <2>1. StepsLeft' = 5
      BY <1>7 DEF StepsLeft, GateNames
    <2>2. QED
      BY <1>4, <1>5, <2>1
  <1>8. Pass(pc) \/ pc' = "render"
    BY <1>3, GateTakesStep DEF GateStep, RefusedWith, AcceptedWith, Refuse, Deliver
  <1>9. QED
    BY <1>6, <1>7, <1>8

LEMMA ArgumentsAdvance == ASSUME IInv, ParseArguments PROVE StepsLeft' < StepsLeft
  <1> DEFINE gates == Gates(command)
  <1>1. command \in AllCommands /\ command' = command /\ pc = "arguments"
    BY DEF IInv, TypeOK, ParseArguments, invocation
  <1>2. Len(gates) \in Nat /\ 1 \in 1..Len(gates) /\ gates[1] \in GateNames /\ Head(gates) = gates[1]
    BY <1>1, GateFacts
  <1>3. StepsLeft = Len(gates) + 6
    BY <1>1 DEF StepsLeft
  <1>4. CASE pc' \in {"render", "finalize"}
    <2>1. StepsLeft' \in {1, 5}
      BY <1>4 DEF StepsLeft, GateNames
    <2>2. QED
      BY <1>2, <1>3, <2>1
  <1>5. CASE pc' = Head(gates)
    <2>1. pc' # "arguments" /\ pc' \in GateNames
      BY <1>2, <1>5, StepNames
    <2>2. StepsLeft' = Len(gates) - Place(pc') + 6
      BY <1>1, <2>1 DEF StepsLeft, Place
    <2>3. Place(pc') = 1
      BY <1>1, <1>2, <1>5, PlaceOfGate
    <2>4. QED
      BY <1>2, <1>3, <2>2, <2>3
  <1>6. QED
    BY <1>4, <1>5 DEF ParseArguments, Deliver

LEMMA OutputAdvances == ASSUME Emit PROVE StepsLeft' < StepsLeft
  <1>1. CASE Render
    <2>1. pc = "render" /\ pc' \in {"print", "write", "finalize"}
      BY <1>1 DEF Render
    <2>2. QED
      BY <2>1 DEF StepsLeft, GateNames
  <1>2. CASE PrintEnvelope
    <2>1. pc = "print" /\ pc' \in {"return", "finalize"}
      BY <1>2 DEF PrintEnvelope
    <2>2. QED
      BY <2>1 DEF StepsLeft, GateNames
  <1>3. CASE Write
    <2>1. pc = "write" /\ pc' \in {"flush", "return"}
      BY <1>3 DEF Write
    <2>2. QED
      BY <2>1 DEF StepsLeft, GateNames
  <1>4. CASE Flush
    BY <1>4 DEF Flush, StepsLeft, GateNames
  <1>5. CASE Return
    BY <1>5 DEF Return, StepsLeft, GateNames
  <1>6. CASE Finalize
    BY <1>6 DEF Finalize, StepsLeft, GateNames
  <1>7. QED
    BY <1>1, <1>2, <1>3, <1>4, <1>5, <1>6 DEF Emit

LEMMA SinkWaits == SinkBreaks => StepsLeft' = StepsLeft
  BY DEF SinkBreaks, invocation, StepsLeft, Place

(* main and everything it calls only go forward: each step of the run       *)
(* brings its exit nearer, and a standard output that fails puts it off by  *)
(* nothing; no failure is retried.                                          *)
THEOREM EveryStepCounts == Spec => Advances
  <1>1. IInv /\ [Next]_vars =>
          [/\ Judge \/ Emit => StepsLeft' < StepsLeft
           /\ SinkBreaks => StepsLeft' = StepsLeft]_vars
    BY GateAdvances, ArgumentsAdvance, OutputAdvances, SinkWaits DEF Judge, Gate
  <1>2. QED
    BY <1>1, Invariance, PTL DEF Spec, Advances

(* No run of a command makes more steps than it has calls, and six.         *)
THEOREM RunBounded == Spec => []StepsBounded
  BY StepsLeftType, Invariance, PTL

-----------------------------------------------------------------------------
(* The exit statuses the documents do not name.                             *)

(* A status config-profile-spec.md does not name is the answer to one of     *)
(* two things.  A standard output that broke: 1 of the commands that print   *)
(* only, 120 through a buffer only.  Or the snapshot of a refused version    *)
(* that json.dumps cannot print: a 1 of the resolving commands, and nothing  *)
(* delivered.                                                               *)
Unprinted == Unprintable /\ exit = 1 /\ pending = 0 /\ delivered = 0

ExitAnswered ==
  /\ pc = "exited" /\ exit \notin ExitCodes => sink = "broken" \/ Unprinted
  /\ exit = 1 => command # "config_import_v5_console"
  /\ exit = 120 => stdout = "buffered" /\ sink = "broken"

ExitInv ==
  /\ pending > 0 => stdout = "buffered"
  /\ returned = Raised =>
       /\ command # "config_import_v5_console"
       /\ sink = "broken" \/ (Unprintable /\ pending = 0 /\ delivered = 0)
  /\ pc = "finalize" => returned # NotYet
  /\ ExitAnswered

LEMMA JudgementExits ==
  ASSUME IInv, ExitInv, Judge
  PROVE  ExitInv'
  <1>1. CASE Gate
    <2>1. UNCHANGED <<invocation, ending, stream>> /\ pc \in GateNames /\ command \in AllCommands
      BY <1>1, GateFrame DEF IInv, TypeOK
    <2>2. AtGate
      BY <2>1 DEF AtGate, IInv
    <2>3. Pass(pc) \/ pc' = "render"
      BY <1>1, <2>2, GateTakesStep DEF GateStep, RefusedWith, AcceptedWith, Refuse, Deliver
    <2>4. Pass(pc) => pc' \in GateNames
      BY <2>1, <2>2, PassStep, StepNames DEF AtGate, invocation
    <2>5. pc' \notin {"finalize", "exited"}
      BY <2>3, <2>4, StepNames
    <2>6. returned = NotYet /\ exit = exit' /\ (pc = "exited") = FALSE
      BY <2>1, StepNames DEF IInv, EnvelopeInv, ending
    <2>7. QED
      BY <2>1, <2>5, <2>6 DEF ExitInv, ExitAnswered, invocation, ending, stream, NotYet, Raised
  <1>2. CASE ParseArguments
    <2>1. command \in AllCommands /\ returned = NotYet /\ UNCHANGED <<invocation, exit, stream>>
      BY <1>2 DEF IInv, TypeOK, EnvelopeInv, ParseArguments
    <2>2. Head(Gates(command)) \in GateNames
      BY <2>1, GateFacts
    <2>3. \/ pc' \in GateNames \cup {"render"} /\ returned' = returned
          \/ pc' = "finalize" /\ returned' = 2
      BY <1>2, <2>2 DEF ParseArguments, Deliver
    <2>4. pc' \in GateNames \cup {"render"} => pc' \notin {"finalize", "exited"}
      BY StepNames
    <2>5. QED
      BY <2>1, <2>3, <2>4 DEF ExitInv, ExitAnswered, invocation, stream, NotYet, Raised
  <1>3. QED
    BY <1>1, <1>2 DEF Judge, Gate

LEMMA OutputExits ==
  ASSUME IInv, ExitInv, Emit
  PROVE  ExitInv'
  <1> USE DEF ExitInv, ExitAnswered, invocation, stream
  <1>1. CASE Render
    <2>1. /\ returned = NotYet /\ pending = 0 /\ delivered = 0 /\ UNCHANGED <<invocation, exit, stream>>
          /\ pc' \in {"print", "write", "finalize"}
      BY <1>1 DEF IInv, EnvelopeInv, StreamInv, Render
    <2>2. CASE pc' # "finalize"
      <3>1. returned' = NotYet
        BY <1>1, <2>1, <2>2 DEF Render
      <3>2. QED
        BY <2>1, <2>2, <3>1 DEF NotYet, Raised
    <2>3. CASE pc' = "finalize"
      <3>1. Unprintable /\ returned' = Raised /\ UNCHANGED <<command, envelope>>
        BY <1>1, <2>3 DEF Render
      <3>2. Unprintable' /\ command # "config_import_v5_console"
        BY <3>1 DEF Unprintable, Resolvers
      <3>3. QED
        BY <2>1, <2>3, <3>1, <3>2 DEF NotYet, Raised
    <2>4. QED
      BY <2>2, <2>3
  <1>2. CASE PrintEnvelope
    <2>1. /\ command # "config_import_v5_console" /\ returned = NotYet /\ pending = 0
          /\ pc' \in {"return", "finalize"} /\ UNCHANGED <<invocation, exit, sink>>
      BY <1>2 DEF IInv, EnvelopeInv, StreamInv, PrintEnvelope
    <2>2. /\ pending' > 0 => stdout = "buffered"
          /\ returned' = NotYet \/ (returned' = Raised /\ sink = "broken")
          /\ pc' = "finalize" => returned' = Raised
      BY <1>2, <2>1 DEF PrintEnvelope, Payload
    <2>3. QED
      BY <2>1, <2>2 DEF NotYet, Raised
  <1>3. CASE Write
    <2>1. /\ pc' \in {"flush", "return"} /\ UNCHANGED <<invocation, returned, exit, sink>> /\ pending = 0
          /\ returned = NotYet
      BY <1>3 DEF Write, IInv, StreamInv, EnvelopeInv
    <2>2. pending' > 0 => stdout = "buffered"
      BY <1>3, <2>1 DEF Write
    <2>3. QED
      BY <2>1, <2>2 DEF NotYet, Raised
  <1>4. CASE Flush
    <2>1. pc' = "return" /\ UNCHANGED <<invocation, returned, exit, sink>> /\ returned = NotYet
      BY <1>4 DEF Flush, IInv, EnvelopeInv
    <2>2. pending' > 0 => pending > 0
      BY <1>4 DEF Flush
    <2>3. QED
      BY <2>1, <2>2 DEF NotYet, Raised
  <1>5. CASE Return
    <2>1. returned' \in ExitCodes
      BY <1>5 DEF Return, ExitCodeFor, ExitCodes
    <2>2. returned' # NotYet /\ returned' # Raised
      BY <2>1 DEF ExitCodes, NotYet, Raised
    <2>3. QED
      BY <1>5, <2>2 DEF Return
  <1>6. CASE Finalize
    <2>1. /\ returned \in ExitCodes \cup {Raised} /\ returned # 1 /\ returned # 120
          /\ UNCHANGED <<invocation, returned, sink>> /\ pc' = "exited" /\ Unprintable' = Unprintable
      BY <1>6 DEF Finalize, IInv, TypeOK, ExitCodes, NotYet, Raised, judgement, Unprintable
    <2>2. CASE pending > 0 /\ sink = "broken"
      <3>1. exit' = 120 /\ UNCHANGED pending
        BY <1>6, <2>2 DEF Finalize
      <3>2. QED
        BY <2>1, <2>2, <3>1
    <2>3. CASE ~(pending > 0 /\ sink = "broken")
      <3>1. /\ exit' = (IF returned = Raised THEN 1 ELSE returned) /\ pending' = 0
            /\ delivered' = delivered + pending
        BY <1>6, <2>3 DEF Finalize
      <3>2. exit' = 1 => returned = Raised
        BY <2>1, <3>1
      <3>3. exit' # 120 /\ (exit' \notin ExitCodes => returned = Raised /\ exit' = 1)
        BY <2>1, <3>1
      <3>4. returned = Raised => sink' = "broken" \/ (Unprintable' /\ delivered' = 0)
        BY <2>1, <3>1
      <3>5. QED
        BY <2>1, <3>1, <3>2, <3>3, <3>4 DEF NotYet, Raised, Unprinted
    <2>4. QED
      BY <2>2, <2>3
  <1>7. QED
    BY <1>1, <1>2, <1>3, <1>4, <1>5, <1>6 DEF Emit

(* "exit codes 0/2/3/4/5" (config-profile-spec.md) is false of a process     *)
(* whose standard output broke, of one whose refused config_version has too  *)
(* many decimal digits to be printed, and of no other; and T06C, whose       *)
(* writer looks at every write and whose snapshot never repeats a number,    *)
(* ends with another status only when the interpreter's last flush fails.    *)
THEOREM ExitsAnswered == Spec => []ExitAnswered
  <1>1. Init => ExitInv
    BY DEF Init, ExitInv, ExitAnswered, NotYet, Raised
  <1>2. IInv /\ ExitInv /\ [Next]_vars => ExitInv'
    <2> SUFFICES ASSUME IInv, ExitInv, [Next]_vars PROVE ExitInv'
      OBVIOUS
    <2>1. CASE SinkBreaks
      BY <2>1 DEF SinkBreaks, ExitInv, ExitAnswered, invocation, judgement, ending
    <2>2. CASE UNCHANGED vars
      BY <2>2 DEF vars, ExitInv, ExitAnswered, Unprinted, Unprintable
    <2>3. QED
      BY <2>1, <2>2, JudgementExits, OutputExits DEF Next
  <1>3. ExitInv => ExitAnswered
    BY DEF ExitInv
  <1>4. QED
    BY <1>1, <1>2, <1>3, Invariance, PTL DEF Spec
=============================================================================
