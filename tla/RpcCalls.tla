------------------------------ MODULE RpcCalls ------------------------------
(***************************************************************************)
(* The remote back end of the user library and its server: the procedure a *)
(* function of the library sends, what the messages carry, and the global  *)
(* function the server calls.  Procedures are named without ME_ and _PROC; *)
(* inputs and answers have the names of module LibCalls.                   *)
(***************************************************************************)
EXTENDS LibCalls

\* The remote back end (Xxx_RPC).  The result of every procedure holds the error
\* code, which is left out.
RemoteLocks == [LockDriver |-> Ask("lock_driver", {}), LockDevice |-> Ask("lock_device", {}),
                LockSubdevice |-> Ask("lock_subdevice", {})]

\* The driver's name is answered without asking.
RemoteDriver == [QueryDriverVersion |-> Ask("query_version_main_driver", {"version"}),
                 QueryDriverName |-> <<>>]
RemoteSubdriver == [QuerySubdriverVersion |-> Ask("query_version_device_driver", {"version"}),
                    QuerySubdriverName |-> Ask("query_name_device_driver", {"name"})]
RemoteDevice == [QueryDeviceName |-> Ask("query_name_device", {"name"}),
                 QueryDeviceDescription |-> Ask("query_description_device", {"description"})]
RemoteInfo == [QueryDeviceInfo |-> Ask("query_info_device", {"info"}),
               QuerySubdevicesNumber |-> Ask("query_number_subdevices", {"number"})]
\* Counting the subdevices of a type is not supported.
RemoteTypes == [QuerySubdevicesNumberByType |-> <<>>,
                QuerySubdeviceType |-> Ask("query_subdevice_type", {"type", "subtype"})]
RemoteCaps == [QuerySubdeviceByType |-> Ask("query_subdevice_by_type", {"result"}),
               QuerySubdeviceCaps |-> Ask("query_subdevice_caps", {"caps"})]
RemoteCapsArgs == [QuerySubdeviceCapsArgs |-> Ask("query_subdevice_caps_args", {"args"})]

\* A timer is described by the ticks of the shortest and the longest time and
\* those of 1 Hz.
RemoteTimer ==
    LET ticks(fn) == To(fn, TimerOf, {"ticks"}) IN
    [QuerySubdeviceTimer |-> ticks("io_stream_time_to_ticks") \o ticks("io_stream_time_to_ticks")
                             \o ticks("io_stream_frequency_to_ticks")]

RemoteNumbers == [QueryChannelsNumber |-> Ask("query_number_channels", {"number"}),
                  QueryRangesNumber |-> Ask("query_number_ranges", {"number"})]
RemoteRanges ==
    [QueryRangeInfo |-> Ask("query_range_info", {"unit", "min", "max", "max_data"}),
     QueryRangeByMinMax |-> Ask("query_range_by_min_max", {"range", "min", "max", "max_data"})]

\* The count to wait from is not sent.
RemoteIrq == [IrqStart |-> Ask("io_irq_start", {}),
              IrqWait |-> To("io_irq_wait", Chan \cup {"timeout", "flags"}, {"count", "value"})]
\* There is no procedure to test an interrupt: it is waited for 1 ms.
RemoteReset == [IrqStop |-> Ask("io_irq_stop", {}),
                IrqTest |-> To("io_irq_wait", Chan \cup {"flags"}, {}),
                IrqSetCallback |-> To("io_irq_wait", Sub \cup {"flags"}, {})]
\* A bug: the function for a subdevice sends the procedure for the device.
RemoteResets_device == [ResetDevice |-> Ask("io_reset_device", {}),
                        ResetSubdevice |-> Ask("io_reset_device", {})]

RemoteResets == [ResetDevice |-> Ask("io_reset_device", {}),
                 ResetSubdevice |-> Ask("io_reset_subdevice", {})]

RemoteConfig == [SingleConfig |-> Ask("io_single_config", {})]
\* A single value is sent as a list of one, without flags of the list.
RemoteSingle == [Single |-> To("io_single", Methods["Single"], {"value"}),
                 SingleList |-> Ask("io_single", {"value", "errno"})]
RemoteStream == [StreamConfigure |-> Ask("io_stream_config", {}),
                 StreamConfig |-> Ask("io_stream_config", {})]
RemoteStart == [StreamStart |-> To("io_stream_start", Methods["StreamStart"], {}),
                StreamStartList |-> Ask("io_stream_start", {"errno"})]
\* The time-out of a stop is not sent.
RemoteStop == [StreamStop |-> To("io_stream_stop", Methods["StreamStop"] \ {"timeout"}, {}),
               StreamStopList |-> Ask("io_stream_stop", {"errno"})]
\* Nor those of reading and writing.
RemoteRead == [StreamNewValues |-> Ask("io_stream_new_values", {"count"}),
               StreamRead |-> To("io_stream_read", Methods["StreamRead"] \ {"timeout"},
                                 {"values", "count"})]
RemoteWrite == [StreamWrite |-> To("io_stream_write", Methods["StreamWrite"] \ {"timeout"},
                                   {"count"}),
                StreamSetCallbacks |-> <<>>]

RemoteStatus == [StreamStatus |-> Ask("io_stream_status", {"status", "count"}),
                 StreamTimeToTicks |-> Ask("io_stream_time_to_ticks", {"time", "ticks"})]

\* Offsets and parameter sets are not supported.
RemoteSet == [StreamFrequencyToTicks |->
                  Ask("io_stream_frequency_to_ticks", {"frequency", "ticks"}),
              ParametersSet |-> <<>>, SetOffset |-> <<>>]

Remote == RemoteLocks @@ RemoteDriver @@ RemoteSubdriver @@ RemoteDevice @@ RemoteInfo
          @@ RemoteTypes @@ RemoteCaps @@ RemoteCapsArgs @@ RemoteTimer @@ RemoteNumbers
          @@ RemoteRanges @@ RemoteIrq @@ RemoteReset @@ RemoteResets @@ RemoteConfig
          @@ RemoteSingle @@ RemoteStream @@ RemoteStart @@ RemoteStop @@ RemoteRead
          @@ RemoteWrite @@ RemoteStatus @@ RemoteSet

-----------------------------------------------------------------------------
\* The stubs of the client: the procedure a stub sends, and whether it waits 5 s
\* for the reply or as long as it takes.
Short(procs) == [p \in procs |-> [sends |-> p, waits |-> "short"]]
Long(procs)  == [p \in procs |-> [sends |-> p, waits |-> "long"]]

StubsLock   == Short({"lock_driver", "lock_device", "lock_subdevice"})
StubsIrq    == Short({"io_irq_start", "io_irq_stop"}) @@ Long({"io_irq_wait"})
StubsReset  == Short({"io_reset_device", "io_reset_subdevice", "io_single_config"})
               @@ Long({"io_single"})
StubsStream == Short({"io_stream_config"})
               @@ Long({"io_stream_read", "io_stream_write", "io_stream_start"})
StubsStop   == Short({"io_stream_stop", "io_stream_status", "io_stream_frequency_to_ticks",
                      "io_stream_time_to_ticks"}) @@ Long({"io_stream_new_values"})
StubsDevice == Short({"query_description_device", "query_info_device", "query_name_device",
                      "query_name_device_driver"})
StubsNumber == Short({"query_number_subdevices", "query_number_channels",
                      "query_number_ranges", "query_range_by_min_max", "query_range_info"})
\* The stub for the arguments of a capability sends the procedure for the capabilities.
StubsType == Short({"query_subdevice_by_type", "query_subdevice_type", "query_subdevice_caps"})
             @@ [query_subdevice_caps_args |->
                     [sends |-> "query_subdevice_caps", waits |-> "short"]]
StubsVersion == Short({"query_version_main_driver", "query_version_device_driver"})

Stub == StubsLock @@ StubsIrq @@ StubsReset @@ StubsStream @@ StubsStop @@ StubsDevice
        @@ StubsNumber @@ StubsType @@ StubsVersion

-----------------------------------------------------------------------------
\* What a message carries: the conversions write and read these fields in one order.
Message(params, res) == [params |-> params, res |-> res]

XdrLocks   == [lock_driver |-> Message({"lock", "flags"}, {}),
               lock_device |-> Message(Dev \cup {"lock", "flags"}, {}),
               lock_subdevice |-> Message(Sub \cup {"lock", "flags"}, {})]
XdrIrqStart == [io_irq_start |->
                    Message(Chan \cup {"source", "edge", "arg", "flags"}, {})]
XdrIrqStop == [io_irq_stop |-> Message(Chan \cup {"flags"}, {})]
XdrIrqWait == [io_irq_wait |-> Message(Chan \cup {"timeout", "flags"}, {"count", "value"})]
XdrReset   == [io_reset_device |-> Message(Dev \cup {"flags"}, {}),
               io_reset_subdevice |-> Message(Sub \cup {"flags"}, {})]
XdrSingleConfig == [io_single_config |-> Message(Chan \cup
    {"config", "reference", "synchro", "trigger", "edge", "flags"}, {})]
XdrSingle  == [io_single |-> Message(Chan \cup
    {"direction", "value", "timeout", "flags", "list flags"}, {"value", "errno"})]
\* The list and the trigger of a stream's configuration.
XdrList    == {"list"}
XdrTrigger == {"trigger", "levels"}
XdrConfig  == [io_stream_config |->
                   Message(Sub \cup XdrList \cup XdrTrigger \cup {"threshold", "flags"}, {})]
XdrNewValues == [io_stream_new_values |-> Message(Sub \cup {"timeout", "flags"}, {"count"})]
\* The count of the values read is the length of their array.
XdrRead    == [io_stream_read |->
                   Message(Sub \cup {"mode", "count", "flags"}, {"values", "count"})]
XdrWrite   == [io_stream_write |->
                   Message(Sub \cup {"mode", "values", "count", "flags"}, {"count"})]
XdrStart   == [io_stream_start |->
                   Message(Sub \cup {"mode", "timeout", "flags", "list flags"}, {"errno"})]
XdrStop    == [io_stream_stop |->
                   Message(Sub \cup {"mode", "flags", "list flags"}, {"errno"})]
XdrStatus  == [io_stream_status |-> Message(Sub \cup {"wait", "flags"}, {"status", "count"})]
XdrFrequency == [io_stream_frequency_to_ticks |->
                     Message(TimerOf \cup {"frequency"}, {"frequency", "ticks"})]
XdrTime    == [io_stream_time_to_ticks |->
                   Message(TimerOf \cup {"time"}, {"time", "ticks"})]
XdrInfo    == [query_description_device |-> Message(Dev, {"description"}),
               query_info_device |-> Message(Dev, {"info"})]
XdrNames   == [query_name_device |-> Message(Dev, {"name"}),
               query_name_device_driver |-> Message(Dev, {"name"}),
               query_number_subdevices |-> Message(Dev, {"number"}),
               query_number_channels |-> Message(Sub, {"number"})]
XdrRanges  == [query_number_ranges |-> Message(Sub \cup {"unit"}, {"number"})]
XdrMinMax  == [query_range_by_min_max |-> Message(Sub \cup {"unit", "min", "max"},
                                                  {"range", "min", "max", "max_data"})]
XdrRangeInfo == [query_range_info |->
                     Message(Sub \cup {"range"}, {"unit", "min", "max", "max_data"})]
XdrByType  == [query_subdevice_by_type |-> Message(Sub \cup {"type", "subtype"}, {"result"}),
               query_subdevice_type |-> Message(Sub, {"type", "subtype"}),
               query_subdevice_caps |-> Message(Sub, {"caps"})]
XdrCapsArgs == [query_subdevice_caps_args |-> Message(Sub \cup {"cap"}, {"args"}),
                query_version_main_driver |-> Message({}, {"version"}),
                query_version_device_driver |-> Message(Dev, {"version"})]

Xdr == XdrLocks @@ XdrIrqStart @@ XdrIrqStop @@ XdrIrqWait @@ XdrReset @@ XdrSingleConfig
       @@ XdrSingle @@ XdrConfig @@ XdrNewValues @@ XdrRead @@ XdrWrite @@ XdrStart @@ XdrStop
       @@ XdrStatus @@ XdrFrequency @@ XdrTime @@ XdrInfo @@ XdrNames @@ XdrRanges @@ XdrMinMax
       @@ XdrRangeInfo @@ XdrByType @@ XdrCapsArgs

-----------------------------------------------------------------------------
\* The procedures the server knows; a message is read and the result written
\* with the conversions of the procedure, and its service is called.
DispatchIO ==
    {"lock_driver", "lock_device", "lock_subdevice", "io_irq_stop", "io_irq_start",
     "io_irq_wait", "io_reset_device", "io_reset_subdevice", "io_single_config", "io_single",
     "io_stream_config", "io_stream_read", "io_stream_write", "io_stream_start",
     "io_stream_stop", "io_stream_status"}
DispatchQuery ==
    {"io_stream_frequency_to_ticks", "io_stream_time_to_ticks", "io_stream_new_values",
     "query_description_device", "query_info_device", "query_name_device",
     "query_name_device_driver", "query_number_subdevices",
     "query_number_channels", "query_number_ranges", "query_range_by_min_max",
     "query_range_info", "query_subdevice_by_type", "query_subdevice_type",
     "query_subdevice_caps", "query_subdevice_caps_args"}
DispatchVersions == {"query_version_main_driver", "query_version_device_driver"}
Dispatched == DispatchIO \cup DispatchQuery \cup DispatchVersions

\* The services: the global function called, with all of the message's inputs, and
\* the answers put in the result.
ServeLocks == [lock_driver |-> Ask("meLockDriver", {}), lock_device |-> Ask("meLockDevice", {}),
               lock_subdevice |-> Ask("meLockSubdevice", {})]
ServeIrq   == [io_irq_start |-> Ask("meIOIrqStart", {}), io_irq_stop |-> Ask("meIOIrqStop", {}),
               io_irq_wait |-> Ask("meIOIrqWait", {"count", "value"})]
ServeReset == [io_reset_device |-> Ask("meIOResetDevice", {}),
               io_reset_subdevice |-> Ask("meIOResetSubdevice", {})]
ServeSingle == [io_single_config |-> Ask("meIOSingleConfig", {}),
                io_single |-> Ask("meIOSingle", {"value", "errno"})]
ServeConfig == [io_stream_config |-> Ask("meIOStreamConfig", {}),
                io_stream_new_values |-> Ask("meIOStreamNewValues", {"count"})]
\* The length of the values read stays what was asked for.
ServeRead  == [io_stream_read |-> Ask("meIOStreamRead", {"values"}),
               io_stream_write |-> Ask("meIOStreamWrite", {"count"})]
ServeRun   == [io_stream_start |-> Ask("meIOStreamStart", {"errno"}),
               io_stream_stop |-> Ask("meIOStreamStop", {"errno"})]
ServeTicks ==
    [io_stream_status |-> Ask("meIOStreamStatus", {"status", "count"}),
     io_stream_frequency_to_ticks |-> Ask("meIOStreamFrequencyToTicks", {"frequency", "ticks"}),
     io_stream_time_to_ticks |-> Ask("meIOStreamTimeToTicks", {"time", "ticks"})]
ServeDevice ==
    [query_description_device |-> Ask("meQueryDescriptionDevice", {"description"}),
     query_info_device |-> Ask("meQueryInfoDevice", {"info"}),
     query_name_device |-> Ask("meQueryNameDevice", {"name"}),
     query_name_device_driver |-> Ask("meQueryNameDeviceDriver", {"name"})]
ServeNumbers ==
    [query_number_subdevices |-> Ask("meQueryNumberSubdevices", {"number"}),
     query_number_channels |-> Ask("meQueryNumberChannels", {"number"}),
     query_number_ranges |-> Ask("meQueryNumberRanges", {"number"}),
     query_range_by_min_max |-> Ask("meQueryRangeByMinMax", {"range", "min", "max", "max_data"}),
     query_range_info |-> Ask("meQueryRangeInfo", {"unit", "min", "max", "max_data"})]
ServeTypes ==
    [query_subdevice_by_type |-> Ask("meQuerySubdeviceByType", {"result"}),
     query_subdevice_type |-> Ask("meQuerySubdeviceType", {"type", "subtype"}),
     query_subdevice_caps |-> Ask("meQuerySubdeviceCaps", {"caps"}),
     query_subdevice_caps_args |-> Ask("meQuerySubdeviceCapsArgs", {"args"})]
ServeVersions ==
    [query_version_main_driver |-> Ask("meQueryVersionMainDriver", {"version"}),
     query_version_device_driver |-> Ask("meQueryVersionDeviceDriver", {"version"})]

Service == ServeLocks @@ ServeIrq @@ ServeReset @@ ServeSingle @@ ServeConfig @@ ServeRead
           @@ ServeRun @@ ServeTicks @@ ServeDevice @@ ServeNumbers @@ ServeTypes
           @@ ServeVersions
=============================================================================
