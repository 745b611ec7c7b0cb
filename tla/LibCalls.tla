------------------------------ MODULE LibCalls ------------------------------
(***************************************************************************)
(* The call tables of the user library: what each function of a layer      *)
(* calls in the layer below, with which of its inputs, and which answers   *)
(* it takes back.  An input keeps the library's name in every layer, so    *)
(* that an input that is lost, fixed or mixed up on the way shows.  Buffer *)
(* sizes are left out, and so are the flags of queries (the interface sets *)
(* them to ME_QUERY_NO_FLAGS).  The inputs of lists are those of an entry. *)
(***************************************************************************)
EXTENDS Sequences, FiniteSets, TLC

Dev    == {"device"}
Sub    == {"device", "subdevice"}
Chan   == Sub \cup {"channel"}
TimerOf == Sub \cup {"timer", "flags"}

\* Hands a call on: to which functions, with which inputs, which answers come back.
To(fn, in, out) == <<[fn |-> fn, in |-> in, out |-> out]>>

-----------------------------------------------------------------------------
\* The methods of a back end and their inputs (meids_calls_t).
Methods ==
    [LockDriver |-> {"lock", "flags"}, LockDevice |-> Dev \cup {"lock", "flags"},
     LockSubdevice |-> Sub \cup {"lock", "flags"},
     QueryDriverVersion |-> {}, QueryDriverName |-> {},
     QuerySubdriverVersion |-> Dev, QuerySubdriverName |-> Dev,
     QueryDeviceName |-> Dev, QueryDeviceDescription |-> Dev, QueryDeviceInfo |-> Dev,
     QuerySubdevicesNumber |-> Dev,
     QuerySubdevicesNumberByType |-> Dev \cup {"type", "subtype"},
     QuerySubdeviceType |-> Sub, QuerySubdeviceByType |-> Sub \cup {"type", "subtype"},
     QuerySubdeviceCaps |-> Sub, QuerySubdeviceCapsArgs |-> Sub \cup {"cap"},
     QueryChannelsNumber |-> Sub, QueryRangesNumber |-> Sub \cup {"unit"},
     QueryRangeInfo |-> Sub \cup {"range"},
     QueryRangeByMinMax |-> Sub \cup {"unit", "min", "max"},
     QuerySubdeviceTimer |-> TimerOf,
     IrqStart |-> Chan \cup {"source", "edge", "arg", "flags"},
     IrqWait |-> Chan \cup {"count", "timeout", "flags"},
     IrqStop |-> Chan \cup {"flags"}, IrqTest |-> Chan \cup {"flags"},
     IrqSetCallback |-> Sub \cup {"callback", "flags"},
     ResetDevice |-> Dev \cup {"flags"}, ResetSubdevice |-> Sub \cup {"flags"},
     SingleConfig |-> Chan \cup {"config", "reference", "synchro", "trigger", "edge", "flags"},
     Single |-> Chan \cup {"direction", "value", "timeout", "flags"},
     SingleList |-> Chan \cup {"direction", "value", "timeout", "flags", "list flags"},
     StreamConfig |-> Sub \cup {"list", "trigger", "levels", "threshold", "flags"},
     StreamConfigure |-> Sub \cup {"list", "trigger", "levels", "threshold", "flags"},
     StreamNewValues |-> Sub \cup {"timeout", "flags"},
     StreamRead |-> Sub \cup {"mode", "count", "timeout", "flags"},
     StreamWrite |-> Sub \cup {"mode", "values", "count", "timeout", "flags"},
     StreamStart |-> Sub \cup {"mode", "timeout", "flags"},
     StreamStartList |-> Sub \cup {"mode", "timeout", "flags", "list flags"},
     StreamStatus |-> Sub \cup {"wait", "flags"},
     StreamStop |-> Sub \cup {"mode", "timeout", "flags"},
     StreamStopList |-> Sub \cup {"mode", "flags", "list flags"},
     StreamSetCallbacks |-> Sub \cup {"callback", "flags"},
     StreamTimeToTicks |-> TimerOf \cup {"time"},
     StreamFrequencyToTicks |-> TimerOf \cup {"frequency"},
     SetOffset |-> Chan \cup {"range", "offset", "flags"},
     ParametersSet |-> Dev \cup {"paramset", "flags"}]

-----------------------------------------------------------------------------
\* The global functions (meXxx): the method, without the inputs that the function fixes.
Api(m, fixed) == [method |-> m, fixed |-> fixed]

ApiLock == [meLockDriver |-> Api("LockDriver", {}), meLockDevice |-> Api("LockDevice", {}),
            meLockSubdevice |-> Api("LockSubdevice", {})]

\* The count of meIOIrqWait is set to 0 unless ME_IO_IRQ_WAIT_PRESERVE is given.
ApiIrqReset == [meIOIrqStart |-> Api("IrqStart", {}), meIOIrqStop |-> Api("IrqStop", {}),
                meIOIrqWait |-> Api("IrqWait", {"count"}),
                meIOIrqSetCallback |-> Api("IrqSetCallback", {}),
                meIOResetDevice |-> Api("ResetDevice", {}),
                meIOResetSubdevice |-> Api("ResetSubdevice", {})]

ApiStreamIO == [meIOSingleConfig |-> Api("SingleConfig", {}),
                meIOStreamConfig |-> Api("StreamConfig", {}),
                meIOStreamNewValues |-> Api("StreamNewValues", {}),
                meIOStreamRead |-> Api("StreamRead", {"timeout"}),
                meIOStreamWrite |-> Api("StreamWrite", {"timeout"}),
                meIOStreamSetCallbacks |-> Api("StreamSetCallbacks", {})]

ApiStreamRun == [meIOStreamStart |-> Api("StreamStartList", {}),
                 meIOStreamStatus |-> Api("StreamStatus", {}),
                 meIOStreamStop |-> Api("StreamStopList", {})]

\* meIOSingleTicksToTime() asks for the ticks of one second.
ApiTicks == [meIOStreamTimeToTicks |-> Api("StreamTimeToTicks", {}),
             meIOSingleTimeToTicks |-> Api("StreamTimeToTicks", {}),
             meIOStreamFrequencyToTicks |-> Api("StreamFrequencyToTicks", {}),
             meIOSingleTicksToTime |-> Api("StreamTimeToTicks", {"time"}),
             meIOSetChannelOffset |-> Api("SetOffset", {})]

ApiQueryDevice == [meQueryDescriptionDevice |-> Api("QueryDeviceDescription", {}),
                   meQueryNameDevice |-> Api("QueryDeviceName", {}),
                   meQueryNameDeviceDriver |-> Api("QuerySubdriverName", {}),
                   meQueryInfoDevice |-> Api("QueryDeviceInfo", {}),
                   meQueryVersionDeviceDriver |-> Api("QuerySubdriverVersion", {}),
                   meQueryVersionMainDriver |-> Api("QueryDriverVersion", {"device"})]

ApiQueryNumbers == [meQueryNumberSubdevices |-> Api("QuerySubdevicesNumber", {}),
                    meQueryNumberChannels |-> Api("QueryChannelsNumber", {}),
                    meQueryNumberRanges |-> Api("QueryRangesNumber", {})]

ApiQuerySubdevice == [meQueryRangeByMinMax |-> Api("QueryRangeByMinMax", {}),
                      meQueryRangeInfo |-> Api("QueryRangeInfo", {}),
                      meQuerySubdeviceByType |-> Api("QuerySubdeviceByType", {}),
                      meQuerySubdeviceType |-> Api("QuerySubdeviceType", {}),
                      meQuerySubdeviceCaps |-> Api("QuerySubdeviceCaps", {}),
                      meQuerySubdeviceCapsArgs |-> Api("QuerySubdeviceCapsArgs", {})]

Global == ApiLock @@ ApiIrqReset @@ ApiStreamIO @@ ApiStreamRun @@ ApiTicks
          @@ ApiQueryDevice @@ ApiQueryNumbers @@ ApiQuerySubdevice

-----------------------------------------------------------------------------
\* The wrappers ME_Xxx of the unified library hand every input to ME_virtual_Xxx.
WrappedLocksQueries ==
    {"LockDevice", "LockSubdevice", "QueryDriverVersion", "QueryDriverName",
     "QuerySubdriverVersion", "QuerySubdriverName", "QueryDeviceName",
     "QueryDeviceDescription", "QueryDeviceInfo", "QuerySubdevicesNumber",
     "QuerySubdevicesNumberByType", "QuerySubdeviceType", "QuerySubdeviceByType",
     "QuerySubdeviceCaps", "QuerySubdeviceCapsArgs", "QueryChannelsNumber",
     "QueryRangesNumber", "QueryRangeInfo", "QueryRangeByMinMax", "QuerySubdeviceTimer"}

WrappedIO ==
    {"IrqStart", "IrqWait", "IrqStop", "IrqTest", "IrqSetCallback", "ResetDevice",
     "ResetSubdevice", "SingleConfig", "Single", "SingleList", "StreamConfig",
     "StreamConfigure", "StreamNewValues", "StreamRead", "StreamWrite", "StreamStart",
     "StreamStartList", "StreamStatus", "StreamStop", "StreamStopList",
     "StreamSetCallbacks", "StreamTimeToTicks", "StreamFrequencyToTicks", "SetOffset",
     "ParametersSet"}

\* The virtual functions find the device in the configuration and call the
\* method of the same name in its context, with the context's device number.
VirtualLocks     == {"LockDriver", "LockDevice", "LockSubdevice"}
VirtualDriver    == {"QueryDriverVersion", "QueryDriverName", "QuerySubdriverVersion",
                     "QuerySubdriverName"}
VirtualDevice    == {"QueryDeviceName", "QueryDeviceDescription", "QueryDeviceInfo"}
VirtualSubdevice == {"QuerySubdevicesNumber", "QuerySubdevicesNumberByType",
                     "QuerySubdeviceType", "QuerySubdeviceByType", "QuerySubdeviceCaps",
                     "QuerySubdeviceCapsArgs"}
VirtualRanges    == {"QueryChannelsNumber", "QueryRangesNumber", "QueryRangeInfo",
                     "QueryRangeByMinMax", "QuerySubdeviceTimer"}
VirtualIrqReset  == {"IrqStart", "IrqWait", "IrqStop", "IrqTest", "IrqSetCallback",
                     "ResetDevice", "ResetSubdevice"}
VirtualSingle    == {"SingleConfig", "Single"}
VirtualStream    == {"StreamConfig", "StreamConfigure", "StreamNewValues", "StreamRead",
                     "StreamWrite", "StreamStart"}
VirtualRun       == {"StreamStatus", "StreamStop"}
VirtualTicks     == {"StreamSetCallbacks", "StreamTimeToTicks", "StreamFrequencyToTicks",
                     "ParametersSet", "SetOffset"}
VirtualLists     == {"SingleList", "StreamStartList", "StreamStopList"}

Virtual == VirtualLocks \cup VirtualDriver \cup VirtualDevice \cup VirtualSubdevice
           \cup VirtualRanges \cup VirtualIrqReset \cup VirtualSingle \cup VirtualStream
           \cup VirtualRun \cup VirtualTicks \cup VirtualLists

-----------------------------------------------------------------------------
\* The local back end: a request of the driver, and what is copied back.
Ask(request, out) == To(request, UNION {Methods[m] : m \in DOMAIN Methods}, out)

LocalLocks == [LockDriver |-> Ask("LOCK_DRIVER", {}), LockDevice |-> Ask("LOCK_DEVICE", {}),
               LockSubdevice |-> Ask("LOCK_SUBDEVICE", {})]

LocalDriver == [QueryDriverVersion |-> Ask("QUERY_VERSION_MAIN_DRIVER", {"version"}),
                QueryDriverName |-> Ask("QUERY_NAME_MAIN_DRIVER", {"name"})]

LocalSubdriver == [QuerySubdriverVersion |-> Ask("QUERY_VERSION_DEVICE_DRIVER", {"version"}),
                   QuerySubdriverName |-> Ask("QUERY_NAME_DEVICE_DRIVER", {"name"})]

LocalDevice == [QueryDeviceName |-> Ask("QUERY_NAME_DEVICE", {"name"}),
                QueryDeviceDescription |-> Ask("QUERY_DESCRIPTION_DEVICE", {"description"})]

LocalInfo == [QueryDeviceInfo |-> Ask("QUERY_INFO_DEVICE", {"info"}),
              QuerySubdevicesNumber |-> Ask("QUERY_NUMBER_SUBDEVICES", {"number"})]

LocalTypes == [QuerySubdevicesNumberByType |->
                   Ask("QUERY_NUMBER_SUBDEVICES_BY_TYPE", {"number"}),
               QuerySubdeviceType |-> Ask("QUERY_SUBDEVICE_TYPE", {"type", "subtype"}),
               QuerySubdeviceByType |-> Ask("QUERY_SUBDEVICE_BY_TYPE", {"result"})]

LocalCaps == [QuerySubdeviceCaps |-> Ask("QUERY_SUBDEVICE_CAPS", {"caps"}),
              QuerySubdeviceCapsArgs |-> Ask("QUERY_SUBDEVICE_CAPS_ARGS", {"args"}),
              QuerySubdeviceTimer |-> Ask("QUERY_TIMER", {"base", "ticks"})]

LocalRanges == [QueryChannelsNumber |-> Ask("QUERY_NUMBER_CHANNELS", {"number"}),
                QueryRangesNumber |-> Ask("QUERY_NUMBER_RANGES", {"number"}),
                QueryRangeInfo |-> Ask("QUERY_RANGE_INFO", {"unit", "min", "max", "max_data"})]

\* The range is looked for here: the ranges are counted, each is asked for (one
\* range in the model), and the best one once more.
LocalMinMax == [QueryRangeByMinMax |->
                    To("QUERY_NUMBER_RANGES", Sub \cup {"unit"}, {"range"})
                    \o To("QUERY_RANGE_INFO", Sub, {"range"})
                    \o To("QUERY_RANGE_INFO", Sub, {"min", "max", "max_data"})]

LocalIrq == [IrqStart |-> Ask("IO_IRQ_ENABLE", {}),
             IrqWait |-> Ask("IO_IRQ_WAIT", {"count", "value"}),
             IrqStop |-> Ask("IO_IRQ_DISABLE", {})]

\* A callback is only given to a subdevice that has interrupts: channel 0 is tested.
LocalReset == [IrqTest |-> Ask("IO_IRQ_CHECK", {}),
               IrqSetCallback |-> To("IO_IRQ_CHECK", Sub \cup {"flags"}, {}),
               ResetDevice |-> Ask("IO_RESET_DEVICE", {}),
               ResetSubdevice |-> Ask("IO_RESET_SUBDEVICE", {})]

LocalSingle == [SingleConfig |-> Ask("IO_SINGLE_CONFIG", {}),
                Single |-> Ask("IO_SINGLE_SIMPLE", {"value"})]

LocalList == [SingleList |-> Ask("IO_SINGLE", {"value", "errno"}),
              StreamConfigure |-> Ask("IO_STREAM_CONFIG", {})]

LocalStart == [StreamConfig |-> Ask("IO_STREAM_CONFIG", {}),
               StreamStart |-> Ask("IO_STREAM_START_SIMPLE", {}),
               StreamStartList |-> Ask("IO_STREAM_START", {"errno"})]

\* StreamSetCallbacks only creates or ends threads of the library.
LocalStop == [StreamStop |-> Ask("IO_STREAM_STOP_SIMPLE", {}),
              StreamStopList |-> Ask("IO_STREAM_STOP", {"errno"}),
              StreamSetCallbacks |-> <<>>]

LocalValues == [StreamNewValues |-> Ask("IO_STREAM_NEW_VALUES", {"count"}),
                StreamRead |-> Ask("IO_STREAM_TIMEOUT_READ", {"values", "count"}),
                StreamWrite |-> Ask("IO_STREAM_TIMEOUT_WRITE", {"count"})]

LocalStatus == [StreamStatus |-> Ask("IO_STREAM_STATUS", {"status", "count"}),
                StreamTimeToTicks |-> Ask("QUERY_TIMER", {"time", "ticks"})]

LocalSet == [StreamFrequencyToTicks |-> Ask("QUERY_TIMER", {"frequency", "ticks"}),
             ParametersSet |-> Ask("CONFIG_LOAD", {}),
             SetOffset |-> Ask("SET_OFFSET", {"offset"})]

Local == LocalLocks @@ LocalDriver @@ LocalSubdriver @@ LocalDevice @@ LocalInfo
         @@ LocalTypes @@ LocalCaps @@ LocalRanges @@ LocalMinMax @@ LocalIrq @@ LocalReset
         @@ LocalSingle @@ LocalList @@ LocalStart @@ LocalStop @@ LocalValues
         @@ LocalStatus @@ LocalSet
=============================================================================
