----------------------------- MODULE DriverCalls -----------------------------
(***************************************************************************)
(* The way of a request through the driver: me_ioctl() chooses the         *)
(* handler, the handler finds the device and calls its method, and the     *)
(* device calls the method of the subdevice.  Device methods are named     *)
(* without me_device_, subdevice methods without me_subdevice_.            *)
(***************************************************************************)
EXTENDS LibCalls

Inputs == UNION {Methods[m] : m \in DOMAIN Methods}
Answers == {"version", "name", "description", "number", "info", "type", "subtype", "result",
        "caps", "args", "base", "ticks", "unit", "min", "max", "max_data", "range", "count",
        "value", "errno", "values", "status", "time", "frequency", "offset"}

\* A handler that calls a device method with the inputs in.
Device(fn, in) == To(fn, Dev \cup in, Answers)
\* The same for methods that concern a subdevice.
Subdevice(fn, in) == To(fn, Sub \cup in, Answers)

\* The switch of me_ioctl(): requests of single values, streams, interrupts and resets.
IoctlIO ==
    [IO_RESET_DEVICE |-> "io_reset_device", IO_RESET_SUBDEVICE |-> "io_reset_subdevice",
     IO_IRQ_ENABLE |-> "io_irq_start", IO_IRQ_WAIT |-> "io_irq_wait",
     IO_IRQ_DISABLE |-> "io_irq_stop", IO_IRQ_CHECK |-> "io_irq_test",
     IO_SINGLE_CONFIG |-> "io_single_config", IO_SINGLE |-> "io_single",
     IO_SINGLE_SIMPLE |-> "io_single_simple", IO_STREAM_CONFIG |-> "io_stream_config",
     IO_STREAM_TIMEOUT_READ |-> "io_stream_timeout_read",
     IO_STREAM_TIMEOUT_WRITE |-> "io_stream_timeout_write",
     IO_STREAM_NEW_VALUES |-> "io_stream_new_values", IO_STREAM_START |-> "io_stream_start",
     IO_STREAM_START_SIMPLE |-> "io_stream_start_simple",
     IO_STREAM_STOP |-> "io_stream_stop", IO_STREAM_STOP_SIMPLE |-> "io_stream_stop_simple",
     IO_STREAM_STATUS |-> "io_stream_status", SET_OFFSET |-> "set_offset"]

\* Requests for locks, queries and loading a configuration.
IoctlQuery ==
    [LOCK_DRIVER |-> "lock_driver", LOCK_DEVICE |-> "lock_device",
     LOCK_SUBDEVICE |-> "lock_subdevice", QUERY_INFO_DEVICE |-> "query_info_device",
     QUERY_DESCRIPTION_DEVICE |-> "query_description_device",
     QUERY_NAME_DEVICE |-> "query_name_device",
     QUERY_NAME_DEVICE_DRIVER |-> "query_name_device_driver",
     QUERY_NAME_MAIN_DRIVER |-> "query_name_main_driver",
     QUERY_NUMBER_SUBDEVICES |-> "query_number_subdevices",
     QUERY_NUMBER_SUBDEVICES_BY_TYPE |-> "query_number_subdevices_by_type",
     QUERY_NUMBER_CHANNELS |-> "query_number_channels",
     QUERY_NUMBER_RANGES |-> "query_number_ranges", QUERY_RANGE_INFO |-> "query_range_info",
     QUERY_SUBDEVICE_BY_TYPE |-> "query_subdevice_by_type",
     QUERY_SUBDEVICE_TYPE |-> "query_subdevice_type",
     QUERY_SUBDEVICE_CAPS |-> "query_subdevice_caps",
     QUERY_SUBDEVICE_CAPS_ARGS |-> "query_subdevice_caps_args", QUERY_TIMER |-> "query_timer",
     QUERY_VERSION_MAIN_DRIVER |-> "query_version_main_driver",
     QUERY_VERSION_DEVICE_DRIVER |-> "query_version_device_driver",
     CONFIG_LOAD |-> "config_load"]

-----------------------------------------------------------------------------
\* The handlers.  The requests of lists do not give a stop a time-out.
HandlersIrq ==
    [io_irq_start |-> Subdevice("io_irq_start", {"channel", "source", "edge", "arg", "flags"}),
     io_irq_wait |-> Subdevice("io_irq_wait", {"channel", "count", "timeout", "flags"}),
     io_irq_stop |-> Subdevice("io_irq_stop", {"channel", "flags"}),
     io_irq_test |-> Subdevice("io_irq_test", {"channel", "flags"}),
     io_reset_device |-> Device("io_reset_device", {"flags"}),
     io_reset_subdevice |-> Subdevice("io_reset_subdevice", {"flags"}),
     io_single_config |-> Subdevice("io_single_config",
         {"channel", "config", "reference", "synchro", "trigger", "edge", "flags"}),
     io_stream_new_values |-> Subdevice("io_stream_new_values", {"timeout", "flags"})]

HandlersStream ==
    [io_stream_timeout_read |->
         Subdevice("io_stream_timeout_read", {"mode", "count", "timeout", "flags"}),
     io_stream_status |-> Subdevice("io_stream_status", {"wait", "flags"}),
     io_stream_timeout_write |->
         Subdevice("io_stream_timeout_write", {"mode", "values", "count", "timeout", "flags"}),
     set_offset |-> Subdevice("set_offset", {"channel", "range", "offset", "flags"})]

HandlersQuery ==
    [query_name_device |-> Device("query_name_device", {}),
     query_name_device_driver |-> Device("query_name_device_driver", {}),
     query_description_device |-> Device("query_description_device", {}),
     query_info_device |-> Device("query_info_device", {}),
     query_number_subdevices |-> Device("query_number_subdevices", {}),
     query_number_subdevices_by_type |->
         Device("query_number_subdevices_by_type", {"type", "subtype"}),
     query_number_channels |-> Subdevice("query_number_channels", {}),
     query_subdevice_by_type |-> Subdevice("query_subdevice_by_type", {"type", "subtype"}),
     query_subdevice_type |-> Subdevice("query_subdevice_type", {}),
     query_subdevice_caps |-> Subdevice("query_subdevice_caps", {})]

HandlersRanges ==
    [query_number_ranges |-> Subdevice("query_number_ranges", {"unit"}),
     query_range_info |-> Subdevice("query_range_info", {"range"}),
     query_timer |-> Subdevice("query_timer", {"timer", "flags"}),
     query_version_device_driver |-> Device("query_version_device_driver", {})]

\* me_lock_driver() and the questions about the main driver end in the main driver.
HandlersLock == [lock_driver |-> <<>>,
                 lock_device |-> Device("lock_device", {"lock", "flags"}),
                 lock_subdevice |-> Subdevice("lock_subdevice", {"lock", "flags"})]

HandlersConfigLoad == [config_load |-> Device("config_load", {"paramset"})]

HandlersStart == [io_stream_start |-> Subdevice("io_stream_start", {"mode", "timeout", "flags"})]

HandlersStartSimple ==
    [io_stream_start_simple |-> Subdevice("io_stream_start", {"mode", "timeout", "flags"})]

\* The direction chooses between reading and writing a single value.
HandlersSingle ==
    [io_single |-> Subdevice("io_single_read or _write",
         {"channel", "direction", "value", "timeout", "flags"})]

HandlersSingleSimple ==
    [io_single_simple |-> Subdevice("io_single_read or _write",
         {"channel", "direction", "value", "timeout", "flags"})]

HandlersStreamConfig ==
    [io_stream_config |-> Subdevice("io_stream_config", {"list", "trigger", "levels", "threshold", "flags"})]

HandlersStop == [io_stream_stop |-> Subdevice("io_stream_stop", {"mode", "flags"})]

HandlersStopSimple ==
    [io_stream_stop_simple |-> Subdevice("io_stream_stop", {"mode", "timeout", "flags"})]

HandlersMain == [query_name_main_driver |-> <<>>, query_version_main_driver |-> <<>>]

HandlersCapsArgs == [query_subdevice_caps_args |->
                         Subdevice("query_subdevice_caps_args", {"cap"})]

Ioctl   == IoctlIO @@ IoctlQuery
Handler == HandlersIrq @@ HandlersStream @@ HandlersQuery @@ HandlersRanges @@ HandlersLock
           @@ HandlersConfigLoad @@ HandlersStart @@ HandlersStartSimple @@ HandlersSingle
           @@ HandlersSingleSimple @@ HandlersStreamConfig @@ HandlersStop
           @@ HandlersStopSimple @@ HandlersMain @@ HandlersCapsArgs

-----------------------------------------------------------------------------
\* Device methods that check the subdevice's number, enter the device's lock
\* and call the subdevice's method of the same name.
DeviceIrq    == {"io_irq_start", "io_irq_wait"}
DeviceIrqOff == {"io_irq_stop"}
DeviceSingle == {"io_reset_subdevice", "io_single_config"}
DeviceValue  == {"io_single_read or _write"}
DeviceStream == {"io_stream_config", "io_stream_new_values"}
DeviceRun    == {"io_stream_start", "io_stream_status"}
DeviceStop   == {"io_stream_stop"}
DeviceOffset == {"set_offset"}
\* The same, without the lock.
DeviceTest   == {"io_irq_test"}
DeviceNumbers == {"query_number_channels", "query_number_ranges"}
DeviceRanges == {"query_range_info"}
DeviceTypes  == {"query_subdevice_type", "query_subdevice_caps", "query_subdevice_caps_args",
                 "query_timer"}

Forwarded == DeviceIrq \cup DeviceIrqOff \cup DeviceSingle \cup DeviceValue \cup DeviceStream
             \cup DeviceRun \cup DeviceStop \cup DeviceOffset \cup DeviceTest
             \cup DeviceNumbers \cup DeviceRanges \cup DeviceTypes

\* Reading and writing go on under the names without time-out.
DeviceRead  == [io_stream_timeout_read |-> To("io_stream_read", Inputs, Answers)]
DeviceWrite == [io_stream_timeout_write |-> To("io_stream_write", Inputs, Answers)]
\* A device is reset by resetting each of its subdevices (two in the model).
DeviceReset == [io_reset_device |-> LET each == To("io_reset_subdevice", {"flags"}, {})
                                    IN each \o each]

Renamed == DeviceRead @@ DeviceWrite @@ DeviceReset

\* The other methods are done by the device itself.
DeviceItself == {"lock_device", "lock_subdevice", "config_load", "query_name_device",
                 "query_name_device_driver", "query_description_device", "query_info_device",
                 "query_number_subdevices", "query_number_subdevices_by_type",
                 "query_subdevice_by_type", "query_version_device_driver"}
=============================================================================
