---------------------------- MODULE DeviceBuffers ----------------------------
(***************************************************************************)
(* The buffers three accelerators share without copying: RGA writes a      *)
(* camera frame into an input slot (rga_preprocess.cpp), the NPU reads it  *)
(* and writes an output slot (rknn_engine.cpp), MPP reads camera buffers   *)
(* (mpp_h265_encoder.cpp). Each keeps a cache of what it has imported or   *)
(* bound, which a failed call must not leave wrong: a failed Run or        *)
(* Process only costs its frame, and the next frame meets the cache.       *)
(*                                                                         *)
(* The pipeline around them (InferencePipeline) is reduced to its slot     *)
(* queues; frames are numbered. Bound I/O is modelled, the mode RunRuntime *)
(* selects.                                                                *)
(***************************************************************************)
EXTENDS Naturals, FiniteSets, SequencesExt

CONSTANTS InSlots, OutSlots,     \* input and output slots
          Tensors,               \* number of output tensors
          CameraBuffers,         \* the camera's exported buffers
          DmaHeap,               \* input_dma_heap_path is given
          MaxPictures,           \* bound: frames
          MaxDeviceFailures      \* bound: library calls that fail

ASSUME DeviceAssumption ==
    Tensors \in Nat \ {0} /\ InSlots \subseteq Nat \ {0} /\ OutSlots \subseteq Nat \ {0}

VARIABLES live,       \* objects that exist in the libraries and the kernel
          recorded,   \* those that a member or an entry of a cache refers to
          engine,     \* RknnEngine: its state and what it believes is bound
          npu,        \* what the device has really bound
          encoder,    \* MppH265Encoder: "absent", "opening", "ready", "failed" or "down"
          input,      \* the frame whose picture an input slot holds
          output,     \* the frame whose result each tensor of a slot holds
          freeIn, freeOut, prepared, completed,   \* the pipeline's slot queues
          pictures, deviceFailures

deviceVars == <<live, recorded, engine, npu, encoder, input, output, freeIn, freeOut,
                prepared, completed, pictures, deviceFailures>>

None == 0            \* no slot: the slots are numbered from 1

Heap(i) == <<"heap", i>>
Wrapper(i) == <<"input_memory", i>>
OutputMemory(o, t) == <<"output_memory", o, t>>
RgaSource(b) == <<"rga_source", b>>
RgaDestination(i) == <<"rga_destination", i>>
MppSource(b) == <<"mpp_source", b>>

EngineObjects == {<<"context">>} \cup {Wrapper(i) : i \in InSlots}
                 \cup (IF DmaHeap THEN {Heap(i) : i \in InSlots} ELSE {})
                 \cup {OutputMemory(o, t) : o \in OutSlots, t \in 1..Tensors}
RgaObjects == {RgaSource(b) : b \in CameraBuffers} \cup {RgaDestination(i) : i \in InSlots}
EncoderObjects == {<<"mpp_context">>, <<"packet_group">>, <<"packet_buffer">>}
MppObjects == EncoderObjects \cup {MppSource(b) : b \in CameraBuffers}

\* A plausible bug: DestroySlots does not reset the heap buffers.
EngineKeepsHeap == {"output_memory", "input_memory", "context"}

\* What each clean-up destroys, of what is on record.
EngineDestroys == {"output_memory", "input_memory", "heap", "context"}
EncoderDestroys == {"mpp_source", "packet_buffer", "packet_group", "mpp_context"}
ReleaseAll == {"rga_source", "rga_destination"}

\* A clean-up of one of the three, with these objects just made and these on
\* record: no member refers to any of its objects any more.
GivenBack(owned, names, made, known) ==
    /\ live' = (live \cup made) \ {o \in known \cap owned : o[1] \in names}
    /\ recorded' = known \ owned

\* What is made, and at once on record.
Made(new) == live' = live \cup new /\ recorded' = recorded \cup new

DeviceInit ==
    /\ live = {} /\ recorded = {}
    /\ engine = [at |-> "absent", boundIn |-> None, boundOut |-> None]
    /\ npu = [input |-> None, output |-> [t \in 1..Tensors |-> None]]
    /\ encoder = "absent"
    /\ input = [i \in InSlots |-> 0]
    /\ output = [o \in OutSlots |-> [t \in 1..Tensors |-> 0]]
    /\ freeIn = InSlots /\ freeOut = OutSlots
    /\ prepared = <<>> /\ completed = <<>>
    /\ pictures = 0 /\ deviceFailures = 0

\* The pipeline runs, with or without a working video branch; it has stopped
\* when its queues are empty.
PipelineExists == engine.at = "ready" /\ encoder \in {"ready", "failed"}
PipelineStopped == prepared = <<>> /\ completed = <<>>

pipelineVars == <<input, output, freeIn, freeOut, prepared, completed, pictures>>
Failing == deviceFailures < MaxDeviceFailures /\ deviceFailures' = deviceFailures + 1

-----------------------------------------------------------------------------
(* RknnEngine.                                                             *)

\* What rknn_init and AllocateSlots make before o: the context, then the input
\* slots, each with its heap buffer first, then the output slots.
NeedsFirst(o) ==
    CASE o[1] = "context" -> {}
      [] o[1] = "heap" -> {<<"context">>}
      [] o[1] = "input_memory" -> {<<"context">>} \cup (IF DmaHeap THEN {Heap(o[2])} ELSE {})
      [] o[1] = "output_memory" -> {p \in EngineObjects : p[1] # "output_memory"}

\* The next object of Initialize. When it cannot be made, is made but turns out
\* unusable, or a query before it fails, Shutdown destroys what is on record:
\* an input slot's memory is recorded before it is tested, an output's after.
Initialize ==
    /\ engine.at \in {"absent", "opening"}
    /\ \E o \in EngineObjects \ live :
        /\ NeedsFirst(o) \subseteq live
        /\ \/ /\ Made({o})
              /\ engine' = [engine EXCEPT
                   !.at = IF EngineObjects \subseteq live' THEN "ready" ELSE "opening"]
              /\ UNCHANGED deviceFailures
           \/ /\ Failing
              /\ engine' = [engine EXCEPT !.at = "failed"]
              /\ \E made \in SUBSET ({o} \ {<<"context">>}) :
                    GivenBack(EngineObjects, EngineDestroys, made,
                              recorded \cup {p \in made : p[1] # "output_memory"})
    /\ UNCHANGED <<npu, encoder, pipelineVars>>

\* BindIo for the input: one call, whose failure may leave the device with
\* the old memory or the new one.
BindInput(i) ==
    IF engine.boundIn = i THEN {[ok |-> TRUE, input |-> npu.input]}
    ELSE {[ok |-> TRUE, input |-> i]}
         \cup {[ok |-> FALSE, input |-> x] : x \in {npu.input, i}}

\* BindIo for the outputs: tensor by tensor; a failure leaves the first ones
\* on the new slot.
BindOutput(o) ==
    IF engine.boundOut = o THEN {[ok |-> TRUE, output |-> npu.output]}
    ELSE {[ok |-> n = Tensors,
           output |-> [t \in 1..Tensors |-> IF t <= n THEN o ELSE npu.output[t]]]
            : n \in 0..Tensors}

\* A plausible bug: a failed output binding leaves the old slot on record.
RecordedKept(ok, old, new) == IF ok THEN new ELSE old

\* What BindIo records: a failed binding leaves nothing on record.
Recorded(ok, old, new) == IF ok THEN new ELSE None

\* RunBoundIo binds what is not bound and runs. What a failing rknn_run has
\* written stays in a slot that nobody reads before it is written again.
Run ==
    /\ PipelineExists /\ prepared # <<>>
    /\ \E o \in freeOut, bi \in BindInput(Head(prepared).slot), fails \in BOOLEAN :
       \E bo \in IF bi.ok THEN BindOutput(o) ELSE {[ok |-> FALSE, output |-> npu.output]} :
        LET i == Head(prepared).slot
            done == bi.ok /\ bo.ok /\ ~fails
        IN  /\ IF done THEN UNCHANGED deviceFailures ELSE Failing
            /\ (fails => bi.ok /\ bo.ok)
            /\ npu' = [input |-> bi.input, output |-> bo.output]
            /\ engine' = [engine EXCEPT
                 !.boundIn = Recorded(bi.ok, @, i),
                 !.boundOut = IF bi.ok THEN Recorded(bo.ok, @, o) ELSE @]
            /\ output' = IF ~done THEN output
                         ELSE [x \in OutSlots |-> [t \in 1..Tensors |->
                            IF bo.output[t] = x /\ bi.input # None
                            THEN input[bi.input] ELSE output[x][t]]]
            /\ completed' = IF done
                            THEN Append(completed, [slot |-> o, frame |-> Head(prepared).frame])
                            ELSE completed
            /\ freeOut' = IF done THEN freeOut \ {o} ELSE freeOut
            /\ freeIn' = freeIn \cup {i}
    /\ prepared' = Tail(prepared)
    /\ UNCHANGED <<live, recorded, encoder, input, pictures>>

\* ProcessCompletedFrame, under a CPU read guard for the slot's tensors.
Postprocess ==
    /\ completed # <<>>
    /\ completed' = Tail(completed)
    /\ freeOut' = freeOut \cup {Head(completed).slot}
    /\ UNCHANGED <<live, recorded, engine, npu, encoder, input, output, freeIn, prepared,
                   pictures, deviceFailures>>

\* DestroySlots and Shutdown: each wrapper before the heap buffer it wraps.
EngineShutdown ==
    /\ engine.at = "ready" /\ encoder = "down" /\ live \cap RgaObjects = {}
    /\ GivenBack(EngineObjects, EngineDestroys, {}, recorded)
    /\ engine' = [at |-> "down", boundIn |-> None, boundOut |-> None]
    /\ UNCHANGED <<npu, encoder, pipelineVars, deviceFailures>>

-----------------------------------------------------------------------------
(* RGA.                                                                    *)

\* Process imports the source and the destination unless their entries match
\* (a buffer keeps its descriptor while the camera is open) and draws; a
\* failed import leaves its entry empty, a failed drawing both imported. The
\* slot goes back to the free ones when it fails.
Preprocess ==
    /\ PipelineExists /\ pictures < MaxPictures
    /\ \E i \in freeIn, b \in CameraBuffers, outcome \in {"drawn", "no_source", "no_destination", "not_drawn"} :
        /\ outcome = "no_source" => RgaSource(b) \notin live
        /\ outcome = "no_destination" => RgaDestination(i) \notin live
        /\ IF outcome = "drawn" THEN UNCHANGED deviceFailures ELSE Failing
        /\ Made((IF outcome = "no_source" THEN {} ELSE {RgaSource(b)})
            \cup (IF outcome \in {"no_source", "no_destination"} THEN {} ELSE {RgaDestination(i)}))
        /\ IF outcome = "drawn"
           THEN /\ input' = [input EXCEPT ![i] = pictures + 1]
                /\ freeIn' = freeIn \ {i}
                /\ prepared' = Append(prepared, [slot |-> i, frame |-> pictures + 1])
           ELSE UNCHANGED <<input, freeIn, prepared>>
    /\ pictures' = pictures + 1
    /\ UNCHANGED <<engine, npu, encoder, output, freeOut, completed>>

\* ReleaseAll, by the destructor, which runs before the engine's.
RgaShutdown ==
    /\ encoder = "down" /\ live \cap RgaObjects # {}
    /\ GivenBack(RgaObjects, ReleaseAll, {}, recorded)
    /\ UNCHANGED <<engine, npu, encoder, pipelineVars, deviceFailures>>

-----------------------------------------------------------------------------
(* MPP.                                                                    *)

\* Initialize creates the context, the packet group and the packet buffer, with
\* controls between them, then asks for the codec header. Any failure shuts it
\* down again and ends the program before a pipeline exists.
PacketMemoryBefore(o) ==
    CASE o[1] = "mpp_context" -> {}
      [] o[1] = "packet_group" -> {<<"mpp_context">>}
      [] o[1] = "packet_buffer" -> {<<"mpp_context">>, <<"packet_group">>}

EncoderInitialize ==
    /\ engine.at = "ready" /\ encoder \in {"absent", "opening"}
    /\ \/ /\ \E o \in EncoderObjects \ live : PacketMemoryBefore(o) \subseteq live /\ Made({o})
          /\ encoder' = "opening"
          /\ UNCHANGED deviceFailures
       \/ /\ EncoderObjects \subseteq live
          /\ encoder' = "ready"
          /\ UNCHANGED <<live, recorded, deviceFailures>>
       \/ /\ Failing
          /\ encoder' = "down"
          /\ GivenBack(MppObjects, EncoderDestroys, {}, recorded)
    /\ UNCHANGED <<engine, npu, pipelineVars>>

\* EncodeOne imports the camera buffer on its first frame. A frame and a packet
\* are made for the call; they are given back on every path. A failure ends
\* the video branch.
EncodeOne ==
    /\ encoder = "ready"
    /\ \E b \in CameraBuffers :
        \/ Made({MppSource(b)}) /\ UNCHANGED <<encoder, deviceFailures>>
        \/ /\ Failing /\ encoder' = "failed"
           /\ \E imported \in SUBSET {MppSource(b)} : Made(imported)
    /\ UNCHANGED <<engine, npu, pipelineVars>>

\* Shutdown, by the destructor: the imports, then the packet memory, then the
\* context. The locals of RunRuntime are destroyed in the order encoder,
\* preprocessor, engine, after the pipeline has stopped.
EncoderShutdown ==
    /\ PipelineExists /\ PipelineStopped
    /\ encoder' = "down"
    /\ GivenBack(MppObjects, EncoderDestroys, {}, recorded)
    /\ UNCHANGED <<engine, npu, pipelineVars, deviceFailures>>

DeviceNext == \/ Initialize \/ Run \/ Postprocess \/ EngineShutdown
              \/ Preprocess \/ RgaShutdown
              \/ EncoderInitialize \/ EncodeOne \/ EncoderShutdown

DeviceSpec == DeviceInit /\ [][DeviceNext]_deviceVars

-----------------------------------------------------------------------------
(* Properties.                                                             *)

\* Results belong to their frame: whatever bindings failed before, what
\* postprocessing finds in a completed slot was computed from the picture of
\* the frame it is told, tensor by tensor, and no later run has touched it.
ResultsOfTheirFrame ==
    \A n \in DOMAIN completed : \A t \in 1..Tensors :
        output[completed[n].slot][t] = completed[n].frame

\* What the engine has on record is what the device has bound.
BindingsKnown ==
    /\ engine.boundIn # None => npu.input = engine.boundIn
    /\ engine.boundOut # None => \A t \in 1..Tensors : npu.output[t] = engine.boundOut

\* What exists is on record, whichever call failed, and when the encoder or
\* the engine is down none of theirs exists; but of a failed initialization an
\* output memory stays that was rejected before it was on record.
NothingLeftBehind ==
    /\ engine.at # "failed" => live = recorded
    /\ engine.at = "failed" =>
        /\ recorded = {}
        /\ \A o, p \in live : o = p /\ o[1] = "output_memory"
    /\ engine.at = "down" => live = {}
    /\ encoder = "down" => live \cap MppObjects = {}

DeviceBuffersKept == ResultsOfTheirFrame /\ BindingsKnown /\ NothingLeftBehind
=============================================================================
