------------------------------ MODULE Bindings ------------------------------
(***************************************************************************)
(* The extensions that make the user library callable from Python and      *)
(* Java.  Each function of an extension converts its arguments, calls the  *)
(* library function of the same name and converts the answers back.  A     *)
(* table gives the inputs of a function that are lost on the way, because  *)
(* the extension does not fill in the variable it hands on.                *)
(***************************************************************************)
EXTENDS LibCalls

Whole(fns) == [f \in fns |-> {}]

-----------------------------------------------------------------------------
\* Python.  The count that meIOIrqWait() may go on from is not an argument.
PyLocks  == Whole({"meLockDriver", "meLockDevice", "meLockSubdevice"})
PyIrq    == Whole({"meIOIrqStart", "meIOIrqStop"}) @@ [meIOIrqWait |-> {"count"}]
PyReset  == Whole({"meIOResetDevice", "meIOResetSubdevice", "meIOSingleConfig"})
PySingle == Whole({"meIOSingle"})

\* The dictionary of the trigger has no entries for its levels.
PyStreamConfig == [meIOStreamConfig |-> {"levels"}]

\* Ticks may be given as an int, as a long, or as a long of more than 32 bits; the ticks
\* of the conversions are only taken as a long, and cut at 32 bits.
Ticks        == {"int", "long", "wide"}
PyStartTicks == [taken |-> Ticks, cut |-> {}]
PyConvTicks  == [taken |-> {"long", "wide"}, cut |-> {"wide"}]

PyValues == Whole({"meIOStreamRead", "meIOStreamWrite"})
PyStart  == Whole({"meIOStreamStart"})
PyStop   == Whole({"meIOStreamStop"})
PyStatus == Whole({"meIOStreamStatus", "meIOStreamFrequencyToTicks", "meIOStreamTimeToTicks"})
PyNames  == Whole({"meQueryDescriptionDevice", "meQueryInfoDevice"})
PyNumbers == Whole({"meQueryNameDevice", "meQueryNameDeviceDriver", "meQueryNumberSubdevices",
                    "meQueryNumberChannels", "meQueryNumberRanges"})
PyRanges == Whole({"meQueryRangeByMinMax", "meQueryRangeInfo"})
PyTypes  == Whole({"meQuerySubdeviceByType", "meQuerySubdeviceType", "meQuerySubdeviceCaps",
                   "meQuerySubdeviceCapsArgs"})
PyVersions == Whole({"meQueryVersionMainDriver", "meQueryVersionDeviceDriver"})

Python == PyLocks @@ PyIrq @@ PyReset @@ PySingle @@ PyStreamConfig @@ PyValues @@ PyStart
          @@ PyStop @@ PyStatus @@ PyNames @@ PyNumbers @@ PyRanges @@ PyTypes @@ PyVersions

\* An exception takes the place of all answers.
PyOnError == {}

-----------------------------------------------------------------------------
\* Java.  The objects of the lists of values and of starts have no time-outs.
JavaLocks    == Whole({"meLockDriver", "meLockDevice", "meLockSubdevice"})
JavaIrqReset == Whole({"meIOIrqStart", "meIOIrqStop", "meIOResetDevice", "meIOResetSubdevice"})
                @@ [meIOIrqWait |-> {"count"}]
JavaSingle == [meIOSingle |-> {"timeout"}]
\* A bug: the arguments of the trigger are not converted.
JavaConfig_no_args == Whole({"meIOSingleConfig"}) @@ [meIOStreamConfig |-> {"levels"}]

JavaConfig == Whole({"meIOSingleConfig", "meIOStreamConfig"})

JavaTicks    == [taken |-> Ticks, cut |-> {}]
JavaValues   == Whole({"meIOStreamRead", "meIOStreamWrite"})
JavaStart    == [meIOStreamStart |-> {"timeout"}]
JavaStop     == Whole({"meIOStreamStop"})
JavaStatus   == Whole({"meIOStreamStatus", "meIOStreamFrequencyToTicks",
                       "meIOStreamTimeToTicks"})
JavaNames    == Whole({"meQueryDescriptionDevice", "meQueryInfoDevice", "meQueryNameDevice",
                       "meQueryNameDeviceDriver"})
JavaNumbers  == Whole({"meQueryNumberSubdevices", "meQueryNumberChannels",
                       "meQueryNumberRanges"})
JavaRanges   == Whole({"meQueryRangeByMinMax", "meQueryRangeInfo"})
JavaTypes    == Whole({"meQuerySubdeviceByType", "meQuerySubdeviceType",
                       "meQueryVersionMainDriver", "meQueryVersionDeviceDriver"})

Java == JavaLocks @@ JavaIrqReset @@ JavaSingle @@ JavaConfig @@ JavaValues @@ JavaStart
        @@ JavaStop @@ JavaStatus @@ JavaNames @@ JavaNumbers @@ JavaRanges @@ JavaTypes

\* The objects of a list of values take values and error codes before the exception.
JavaOnError == {"value", "errno"}

-----------------------------------------------------------------------------
Bound == [python |-> [lost |-> Python, start |-> PyStartTicks, conv |-> PyConvTicks,
                      onError |-> PyOnError],
          java   |-> [lost |-> Java, start |-> JavaTicks, conv |-> JavaTicks,
                      onError |-> JavaOnError]]
=============================================================================
