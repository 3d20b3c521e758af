------------------------------- MODULE IvsrInit --------------------------------
(***************************************************************************)
(* ivsr_init (ivsr.cpp) and ov_engine::init_impl (ov_engine.cpp), and what *)
(* may be asked of the handle afterwards: ivsr_get_attr, ivsr_reconfig.    *)
(*                                                                         *)
(* The application's list of entries is read one entry per step, in an     *)
(* order and a number of the application's choice.  Then the engine is     *)
(* built stage by stage.  A stage may return an error; since ivsr_init     *)
(* has no try block, it may also be left by an exception.  Strings are     *)
(* abstracted to what the code tells apart in them.                        *)
(***************************************************************************)
EXTENDS RequestPool, FiniteSets

CONSTANTS
    Models,         \* model files, as records
    Devices,        \* values of TARGET_DEVICE: [target, members]
    Precisions,     \* values of PRECISION
    Resolutions,    \* values of INPUT_RES: their tokens, -1 if not a number
    Shapes,         \* values of RESHAPE_SETTINGS, likewise
    Numbers,        \* values of INFER_REQ_NUMBER and NUM_STREAMS
    Descriptors,    \* tensor descriptions, "unknown_format" or "good"
    Garbage,        \* what a read past the end of a vector may find
    MaxEntries,     \* bound: the entries of the list
    LegacyOpenVino, \* the build number of OpenVINO contains 2022.3
    Failures        \* the stages in which OpenVINO may throw

ASSUME NumbersAssumption == Numbers \subseteq Nat
ASSUME BoundsAssumption == MaxEntries \in Nat /\ Garbage \subseteq Nat
ASSUME DevicesAssumption ==
    \A d \in Devices : d.target \in {"", "AUTO", "MULTI"} /\ d.members \in Seq(STRING)
ASSUME TokensAssumption == \A t \in Resolutions \cup Shapes : t \in Seq(Int)

NoModel == [regular |-> FALSE, rank |-> 0, named |-> FALSE, static |-> FALSE,
            recurrent |-> FALSE, frames |-> 0, height |-> 0, width |-> 0, factor |-> 0]
NoDevice == [target |-> "", members |-> <<>>]

VARIABLES
    pc,          \* where ivsr_init is
    entries,     \* the entries read so far
    config,      \* its configuration variables
    engine,      \* "none", "allocated" or "compiled"
    properties,  \* what instance_ was told: per property, the devices
    compiled,    \* the compiled model: its dimensions and statefulness
    workers,     \* the worker threads of the executor
    handle,      \* *handle is set
    patchConfig, \* handle->patchConfig
    inputShape,  \* handle->input_data_shape
    vsrConfig,   \* handle->vsr_config: the keys that ivsr_reconfig stored
    status,      \* what ivsr_init returned
    answer,      \* the last ivsr_get_attr: its key, status and value
    asked        \* history: the values of INFER_REQ_NUMBER seen

given == <<entries, config, asked>>
built == <<engine, properties, compiled, workers>>
returned == <<handle, patchConfig, inputShape, status>>
used == <<vsrConfig, answer>>
vars == <<requests, idleIds, cvWaiters, pc, entries, config, engine, properties,
          compiled, workers, handle, patchConfig, inputShape, vsrConfig, status,
          answer, asked>>

NoCompiled == [dims |-> 0, frames |-> 0, height |-> 0, width |-> 0, factor |-> 0,
               stateful |-> FALSE]
NoPatch == [scale |-> 0, patchHeight |-> 0, patchWidth |-> 0, dims |-> 0, nif |-> 0]

\* ivsr_init, its configuration variables, and the object ivsr_init will make.
Init ==
    /\ PoolInit(0)
    /\ pc = "parse"
    /\ entries = 0
    /\ config = [model |-> NoModel, device |-> NoDevice, precision |-> "",
                 customLib |-> FALSE, cldnn |-> FALSE, reshape |-> <<>>,
                 width |-> 0, height |-> 0, inferRequestNum |-> 1,
                 numStreams |-> 1, inputDesc |-> "null", outputDesc |-> "null"]
    /\ engine = "none"
    /\ properties = [precision |-> {}, streams |-> {}, kernels |-> {}]
    /\ compiled = NoCompiled
    /\ workers = 0
    /\ handle = FALSE
    /\ patchConfig = NoPatch
    /\ inputShape = <<>>
    /\ vsrConfig = {}
    /\ status = "none"
    /\ answer = [key |-> "none", status |-> "none", value |-> 0]
    /\ asked = {}

--------------------------------------------------------------------------------
(* The strings of the entries.                                               *)

\* Mutant of ConvertStringToVector: every token is taken for a number.
ConvertStringToVectorUnchecked(tokens) == tokens

\* convert_string_to_vector: the tokens that are numbers, in their order.
ConvertStringToVector(tokens) ==
    LET numbers == {i \in DOMAIN tokens : tokens[i] >= 0}
        nth(n) == CHOOSE i \in numbers : Cardinality({j \in numbers : j <= i}) = n
    IN  [n \in 1 .. Cardinality(numbers) |-> tokens[nth(n)]]

MembersOf(device) == {device.members[i] : i \in DOMAIN device.members}

IsGpu(name) == name \in {"GPU", "GPU.0", "GPU.1"}

\* device.find("GPU") != npos
NamesGpu(device) == \E m \in MembersOf(device) : IsGpu(m)

\* The precisions that the check of PRECISION lets pass.
SupportedPrecisions(device) ==
    IF NamesGpu(device) THEN {"f32", "f16"} ELSE {"f32", "bf16"}

\* Mutant of SetDevices: the members of MULTI are forgotten as well.
SetDevicesPlainOnly(device) ==
    IF device.target # "" THEN {} ELSE MembersOf(device)

\* The devices whose configuration parse_engine_config completes.  The virtual
\* device, if it is still in the list, comes first: its configuration is an empty
\* ov::Any, as<AnyMap> throws, and the function returns without the others.
SetDevices(device) ==
    IF device.target = "AUTO" \/ (device.target = "MULTI" /\ LegacyOpenVino)
    THEN {}
    ELSE MembersOf(device)

\* The devices that get the kernels of CLDNN_CONFIG: it is stored under "GPU" and
\* moved to the numbered GPUs that the device string names.
KernelDevices(device, cldnn) ==
    LET numbered == {m \in MembersOf(device) : IsGpu(m) /\ m # "GPU"}
    IN  CASE ~cldnn \/ ~NamesGpu(device) -> {}
          [] numbered = {} -> {"GPU"}
          [] OTHER -> numbered

\* parse_engine_config: which device is told which property.
EngineConfig ==
    LET set == SetDevices(config.device)
    IN  [precision |-> IF config.precision = "" THEN {} ELSE set,
         streams |-> {d \in set : IsGpu(d)},
         kernels |-> KernelDevices(config.device, config.cldnn)]

--------------------------------------------------------------------------------
(* The loop over the entries.  A file that is missing and a key that is not  *)
(* known are logged, and the loop goes on.                                   *)

Reading == pc = "parse" /\ entries < MaxEntries

Read(newConfig) ==
    /\ Reading
    /\ entries' = entries + 1
    /\ config' = newConfig
    /\ UNCHANGED <<poolVars, built, returned, used>>

ReadModel(model) ==
    /\ Read([config EXCEPT !.model = model])
    /\ UNCHANGED <<pc, asked>>

ReadDevice(device) ==
    /\ Read([config EXCEPT !.device = device])
    /\ UNCHANGED <<pc, asked>>

ReadCustomLib ==
    /\ Read([config EXCEPT !.customLib = TRUE])
    /\ UNCHANGED <<pc, asked>>

ReadCldnnConfig ==
    /\ Read([config EXCEPT !.cldnn = TRUE])
    /\ UNCHANGED <<pc, asked>>

\* BATCH_NUM, VERBOSE_LEVEL: stored and never used.  An unknown key: logged.
ReadIgnored ==
    /\ Read(config)
    /\ UNCHANGED <<pc, asked>>

\* PRECISION, against the device read so far: none if DEVICE comes later in the
\* list, which then is not checked again.
ReadPrecision(precision) ==
    /\ precision \in SupportedPrecisions(config.device)
    /\ Read([config EXCEPT !.precision = precision])
    /\ UNCHANGED <<pc, asked>>

RejectPrecision(precision) ==
    /\ Reading
    /\ precision \notin SupportedPrecisions(config.device)
    /\ pc' = "returned"
    /\ status' = "UNSUPPORTED_CONFIG"
    /\ UNCHANGED <<poolVars, given, built, handle, patchConfig, inputShape, used>>

\* RESHAPE_SETTINGS is not looked at until the model is reshaped.
ReadReshape(tokens) ==
    /\ Read([config EXCEPT !.reshape = ConvertStringToVector(tokens)])
    /\ UNCHANGED <<pc, asked>>

\* INPUT_RES: two numbers are read, however many there are.
ReadResolution(tokens) ==
    LET reso == ConvertStringToVector(tokens) IN
    /\ reso # <<>>
    /\ \E beyond \in Garbage :
         Read([config EXCEPT !.width = reso[1],
                             !.height = IF Len(reso) > 1 THEN reso[2] ELSE beyond])
    /\ UNCHANGED <<pc, asked>>

\* Without any number an empty vector is read: the process ends.
ReadNoResolution(tokens) ==
    /\ Reading
    /\ ConvertStringToVector(tokens) = <<>>
    /\ pc' = "crashed"
    /\ UNCHANGED <<poolVars, given, built, returned, used>>

\* Mutant of ReadInferReqNumber: the last value wins instead of the largest.
ReadInferReqNumberLast(num) ==
    /\ Read([config EXCEPT !.inferRequestNum = num])
    /\ asked' = asked \cup {num}
    /\ UNCHANGED pc

\* INFER_REQ_NUMBER and NUM_STREAMS keep the largest value of all, at least 1.
ReadInferReqNumber(num) ==
    /\ Read([config EXCEPT !.inferRequestNum = IF num > @ THEN num ELSE @])
    /\ asked' = asked \cup {num}
    /\ UNCHANGED pc

ReadNumStreams(num) ==
    /\ Read([config EXCEPT !.numStreams = IF num > @ THEN num ELSE @])
    /\ UNCHANGED <<pc, asked>>

ReadInputDesc(desc) ==
    /\ Read([config EXCEPT !.inputDesc = desc])
    /\ UNCHANGED <<pc, asked>>

ReadOutputDesc(desc) ==
    /\ Read([config EXCEPT !.outputDesc = desc])
    /\ UNCHANGED <<pc, asked>>

--------------------------------------------------------------------------------
(* Between the loop and the engine.                                          *)

ModelAndDeviceSet == config.model # NoModel /\ config.device # NoDevice
ResolutionSet == config.width # 0 /\ config.height # 0
DescriptorsSet == config.inputDesc # "null" /\ config.outputDesc # "null"

ReturnError(error) ==
    /\ pc' = "returned"
    /\ status' = error
    /\ UNCHANGED <<handle, patchConfig, inputShape>>

\* An exception leaves ivsr_init; what was built stays.
Escape ==
    /\ pc' = "escaped"
    /\ UNCHANGED <<poolVars, given, built, returned, used>>

\* There is no list, or no place for the handle.
RejectNull ==
    /\ pc = "parse"
    /\ entries = 0
    /\ ReturnError("GENERAL_ERROR")
    /\ UNCHANGED <<poolVars, given, built, used>>

\* check_engine_config, and the resolution.
RejectIncomplete ==
    /\ pc = "parse"
    /\ entries > 0
    /\ ~(ModelAndDeviceSet /\ ResolutionSet)
    /\ ReturnError("UNSUPPORTED_CONFIG")
    /\ UNCHANGED <<poolVars, given, built, used>>

RejectMissingDescriptor ==
    /\ pc = "parse"
    /\ ModelAndDeviceSet /\ ResolutionSet
    /\ ~DescriptorsSet
    /\ ReturnError("GENERAL_ERROR")
    /\ UNCHANGED <<poolVars, given, built, used>>

\* new ov_engine
AllocateEngine ==
    /\ pc = "parse"
    /\ ModelAndDeviceSet /\ ResolutionSet /\ DescriptorsSet
    /\ engine' = "allocated"
    /\ pc' = "property"
    /\ UNCHANGED <<poolVars, given, properties, compiled, workers, returned, used>>

--------------------------------------------------------------------------------
(* ov_engine::init_impl.                                                     *)

\* add_extension, before any try block.
ExtensionThrows ==
    /\ pc = "property"
    /\ config.customLib
    /\ "extension" \in Failures
    /\ Escape

\* set_property, for every device of the configuration.
SetProperties ==
    /\ pc = "property"
    /\ properties' = EngineConfig
    /\ pc' = "read"
    /\ UNCHANGED <<poolVars, given, engine, compiled, workers, returned, used>>

\* Mutant of SetPropertiesFails: the status of init_impl is passed on.
SetPropertiesFailsAsIs ==
    /\ pc = "property"
    /\ "property" \in Failures
    /\ ReturnError("UNSUPPORTED_CONFIG")
    /\ UNCHANGED <<poolVars, given, built, used>>

\* set_property throws: init_impl returns UNSUPPORTED_CONFIG and ivsr_init turns it
\* into GENERAL_ERROR.  The engine is not deleted.
SetPropertiesFails ==
    /\ pc = "property"
    /\ "property" \in Failures
    /\ ReturnError("GENERAL_ERROR")
    /\ UNCHANGED <<poolVars, given, built, used>>

\* read_model throws if there is no such file; init_impl throws it again.
ReadModelThrows ==
    /\ pc = "read"
    /\ ~config.model.regular
    /\ Escape

\* The layout of the model: its own, or the default one if it has 4 or 5
\* dimensions.  (The error of get_default_layout is not looked at.)
HasLayout(model) == model.named \/ model.rank \in {4, 5}

\* The model is read and, if so configured, given the size in RESHAPE_SETTINGS,
\* which is taken to have three numbers.
ReadAndReshape ==
    /\ pc = "read"
    /\ config.model.regular
    /\ config.reshape # <<>> => HasLayout(config.model)
    /\ \E beyond \in Garbage :
         LET model == config.model
             setting(i) == IF Len(config.reshape) >= i THEN config.reshape[i] ELSE beyond
             size == IF config.reshape = <<>>
                     THEN [h |-> model.height, w |-> model.width]
                     ELSE [h |-> setting(2), w |-> setting(3)]
         IN  compiled' = [dims |-> model.rank, frames |-> model.frames,
                          height |-> size.h, width |-> size.w,
                          factor |-> model.factor, stateful |-> model.recurrent]
    /\ pc' = "compile"
    /\ UNCHANGED <<poolVars, given, engine, properties, workers, returned, used>>

\* batch_idx of an empty layout throws; so does OpenVINO, asked for a shape that
\* the model cannot take.
ReshapeThrows ==
    /\ pc = "read"
    /\ config.model.regular
    /\ config.reshape # <<>>
    /\ ~HasLayout(config.model) \/ "reshape" \in Failures
    /\ Escape

\* The pre- and postprocessing is built and the model compiled.
Compile ==
    /\ pc = "compile"
    /\ config.inputDesc = "good" /\ config.outputDesc = "good"
    /\ engine' = "compiled"
    /\ pc' = "requests"
    /\ UNCHANGED <<poolVars, given, properties, compiled, workers, returned, used>>

\* The tables of precisions and colour formats are read with at().
CompileThrows ==
    /\ pc = "compile"
    /\ config.inputDesc # "good" \/ config.outputDesc # "good" \/ "compile" \in Failures
    /\ Escape

--------------------------------------------------------------------------------
(* The rest of ivsr_init.                                                    *)

\* create_infer_requests, one request at a time.
CreateRequest ==
    /\ pc = "requests"
    /\ requests < config.inferRequestNum
    /\ CreateInferRequest
    /\ UNCHANGED <<pc, given, built, returned, used>>

CreateRequestThrows ==
    /\ pc = "requests"
    /\ requests < config.inferRequestNum
    /\ "create" \in Failures
    /\ Escape

\* The executor and its eight threads.
StartExecutor ==
    /\ pc = "requests"
    /\ requests = config.inferRequestNum
    /\ workers' = 8
    /\ pc' = "describe"
    /\ UNCHANGED <<poolVars, given, engine, properties, compiled, returned, used>>

\* get_attr_impl of the engine asks for a static shape, and width_idx for a
\* layout: both throw when there is none.
Describable == HasLayout(config.model) /\ (config.model.static \/ config.reshape # <<>>)

\* Every model enlarges its input by a whole factor.
OutputWidth == compiled.factor * compiled.width

\* Mutant of MakeHandle: the descriptor of the model before it was reshaped.
MakeHandleUnshaped ==
    /\ pc = "describe"
    /\ Describable
    /\ compiled.width # 0
    /\ patchConfig' = [scale |-> OutputWidth \div compiled.width,
                       patchHeight |-> config.model.height,
                       patchWidth |-> config.model.width,
                       dims |-> compiled.dims,
                       nif |-> IF compiled.dims = 5 THEN compiled.frames ELSE 1]
    /\ inputShape' = <<config.height, config.width>>
    /\ handle' = TRUE
    /\ status' = "OK"
    /\ pc' = "ready"
    /\ UNCHANGED <<poolVars, given, built, used>>

\* The patch configuration from the descriptions of the compiled model, the shape
\* of the frames, and the handle.
MakeHandle ==
    /\ pc = "describe"
    /\ Describable
    /\ compiled.width # 0
    /\ patchConfig' = [scale |-> OutputWidth \div compiled.width,
                       patchHeight |-> compiled.height,
                       patchWidth |-> compiled.width,
                       dims |-> compiled.dims,
                       nif |-> IF compiled.dims = 5 THEN compiled.frames ELSE 1]
    /\ inputShape' = <<config.height, config.width>>
    /\ handle' = TRUE
    /\ status' = "OK"
    /\ pc' = "ready"
    /\ UNCHANGED <<poolVars, given, built, used>>

\* The width of the output is divided by that of the input, which RESHAPE_SETTINGS
\* may have made 0: the process ends.
DivideByZero ==
    /\ pc = "describe"
    /\ Describable
    /\ compiled.width = 0
    /\ pc' = "crashed"
    /\ UNCHANGED <<poolVars, given, built, returned, used>>

DescribeThrows ==
    /\ pc = "describe"
    /\ ~Describable
    /\ Escape

--------------------------------------------------------------------------------
(* The handle in use.                                                        *)

\* What get_attr_impl of the engine and patchConfig know.
AttributeValue(key) ==
    CASE key = "INPUT_TENSOR_DESC" -> compiled.dims
      [] key = "OUTPUT_TENSOR_DESC" -> compiled.dims
      [] key = "NUM_INPUT_FRAMES" -> patchConfig.nif
      [] key \in {"INPUT_DIMS", "OUTPUT_DIMS"} -> IF compiled.dims < 5 THEN 5 ELSE compiled.dims

AttributeKeys ==
    {"INPUT_TENSOR_DESC", "OUTPUT_TENSOR_DESC", "NUM_INPUT_FRAMES",
     "INPUT_DIMS", "OUTPUT_DIMS"}

GetAttr(key) ==
    /\ pc = "ready"
    /\ answer' = [key |-> key, status |-> "OK", value |-> AttributeValue(key)]
    /\ UNCHANGED <<poolVars, pc, given, built, returned, vsrConfig>>

\* IVSR_VERSION assigns the string to the parameter, not to what it points to.
GetVersion ==
    /\ pc = "ready"
    /\ answer' = [key |-> "IVSR_VERSION", status |-> "OK", value |-> 0]
    /\ UNCHANGED <<poolVars, pc, given, built, returned, vsrConfig>>

\* An unknown key is logged as if it were the address of a string: most often the
\* process ends.
GetUnknownAttr ==
    /\ pc = "ready"
    /\ \/ /\ pc' = "crashed"
          /\ UNCHANGED answer
       \/ /\ answer' = [key |-> "unknown", status |-> "UNSUPPORTED_KEY", value |-> 0]
          /\ UNCHANGED pc
    /\ UNCHANGED <<poolVars, given, built, returned, vsrConfig>>

\* ivsr_reconfig stores the strings of six keys and does nothing with them.
Reconfig(key) ==
    /\ pc = "ready"
    /\ vsrConfig' = vsrConfig \cup ({key} \cap {"model", "device", "batch_num",
                         "verbose_level", "custom_lib", "cldnn_config"})
    /\ UNCHANGED <<poolVars, pc, given, built, returned, answer>>

--------------------------------------------------------------------------------

ReadEntry ==
    \/ \E m \in Models : ReadModel(m)
    \/ \E d \in Devices : ReadDevice(d)
    \/ ReadCustomLib \/ ReadCldnnConfig \/ ReadIgnored
    \/ \E p \in Precisions : ReadPrecision(p) \/ RejectPrecision(p)
    \/ \E s \in Shapes : ReadReshape(s)
    \/ \E r \in Resolutions : ReadResolution(r) \/ ReadNoResolution(r)
    \/ \E n \in Numbers : ReadInferReqNumber(n) \/ ReadNumStreams(n)
    \/ \E t \in Descriptors : ReadInputDesc(t) \/ ReadOutputDesc(t)

InitEngine ==
    \/ ExtensionThrows \/ SetProperties \/ SetPropertiesFails
    \/ ReadModelThrows \/ ReadAndReshape \/ ReshapeThrows
    \/ Compile \/ CompileThrows

Build ==
    \/ RejectNull \/ RejectIncomplete \/ RejectMissingDescriptor \/ AllocateEngine
    \/ InitEngine
    \/ CreateRequest \/ CreateRequestThrows \/ StartExecutor
    \/ MakeHandle \/ DivideByZero \/ DescribeThrows

Use ==
    \/ \E key \in AttributeKeys : GetAttr(key)
    \/ GetVersion \/ GetUnknownAttr
    \/ \E key \in {"model", "device", "precision"} : Reconfig(key)

\* ivsr_init is over without a handle.
Ended ==
    /\ pc \in {"returned", "escaped", "crashed"}
    /\ UNCHANGED vars

Next == ReadEntry \/ Build \/ Use \/ Ended

Spec == Init /\ [][Next]_vars

--------------------------------------------------------------------------------
(* Properties.                                                               *)

\* The state is always well formed: the vectors hold numbers, and the request
\* number is never below its default of 1 (the configuration variables of ivsr_init).
TypeOK ==
    /\ requests \in Nat
    /\ idleIds \in Seq(Nat)
    /\ cvWaiters = {}
    /\ pc \in {"parse", "property", "read", "compile", "requests", "describe",
               "ready", "returned", "escaped", "crashed"}
    /\ entries \in 0 .. MaxEntries
    /\ config.reshape \in Seq(Nat)
    /\ config.width \in Nat /\ config.height \in Nat
    /\ config.inferRequestNum \in Nat \ {0} /\ config.numStreams \in Nat \ {0}
    /\ engine \in {"none", "allocated", "compiled"}
    /\ workers \in {0, 8}
    /\ handle \in BOOLEAN
    /\ status \in {"none", "OK", "GENERAL_ERROR", "UNSUPPORTED_CONFIG"}
    /\ asked \subseteq Nat

\* A handle comes with as many inference requests, all idle, as the largest
\* INFER_REQ_NUMBER of the list asks for, in whatever order its entries are, and at
\* least one: the state from which the run time starts (create_infer_requests).
PoolAsLargeAsAsked ==
    handle =>
        /\ PoolInit(requests)
        /\ requests \in asked \cup {1}
        /\ requests >= 1
        /\ \A n \in asked : n <= requests

\* The patches are as large as the input of the compiled model, that is as the last
\* RESHAPE_SETTINGS say if there are any, not as the model file says; ivsr_process
\* would otherwise cut patches the requests cannot take (patchConfig of ivsr_init).
\* The second and the third number are taken for the height and the width, as ivsr.h
\* has it (N,H,W); of the four numbers in the sample's help, (1,3,720,1280), they are
\* the second and the third all the same.
PatchesFitTheRequests ==
    handle =>
        /\ Len(config.reshape) >= 3 =>
             /\ patchConfig.patchHeight = config.reshape[2]
             /\ patchConfig.patchWidth = config.reshape[3]
        /\ config.reshape = <<>> =>
             /\ patchConfig.patchHeight = config.model.height
             /\ patchConfig.patchWidth = config.model.width
        /\ patchConfig.nif > 1 => config.model.rank = 5

\* Every hardware device that a plain or a MULTI device string names is told the
\* precision, and every GPU the streams and the kernels.  (An AUTO device is not, nor
\* is a MULTI device of an old OpenVINO; where numbered GPUs are named beside GPU,
\* only they get the kernels: parse_engine_config.)
HardwareIsConfigured ==
    handle /\ config.device.target # "AUTO"
           /\ ~(config.device.target = "MULTI" /\ LegacyOpenVino) =>
        \A d \in MembersOf(config.device) :
            /\ config.precision # "" => d \in properties.precision
            /\ IsGpu(d) => d \in properties.streams
            /\ IsGpu(d) /\ config.cldnn
               /\ (d = "GPU" => MembersOf(config.device) \cap {"GPU.0", "GPU.1"} = {}) =>
                 d \in properties.kernels

\* An error that ivsr_init returns leaves no thread, no request and no handle behind;
\* UNSUPPORTED_CONFIG not even an engine, whereas an engine whose init failed, which
\* is GENERAL_ERROR, is never deleted (the early returns of ivsr_init).
ErrorLeavesNoThread ==
    status \in {"GENERAL_ERROR", "UNSUPPORTED_CONFIG"} =>
        /\ workers = 0 /\ requests = 0 /\ ~handle
        /\ status = "UNSUPPORTED_CONFIG" => engine = "none"
================================================================================
