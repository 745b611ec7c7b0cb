----------------------------- MODULE LibBuilds ------------------------------
(***************************************************************************)
(* The user library is built in four ways: for drivers of this computer    *)
(* and servers (the unified one, with or without an XML file that numbers  *)
(* the devices), for drivers only, and for servers only.  Each build has   *)
(* its own source for the functions below the global ones, and fills its   *)
(* own tables of the methods of a context.                                 *)
(***************************************************************************)
EXTENDS LibCalls

Unified == WrappedLocksQueries \cup WrappedIO

\* The wrappers of the build for drivers only ...
DriversQueries == WrappedLocksQueries
DriversIO      == WrappedIO

\* ... of the build for servers only ...
ServersQueries == WrappedLocksQueries
ServersIO      == WrappedIO

\* ... and of the build with an XML file.
XmlQueries == WrappedLocksQueries
XmlIO      == WrappedIO

\* The methods that each build enters in the tables of its contexts.
EveryMethod == DOMAIN Methods
UnifiedTables == [local |-> EveryMethod, remote |-> EveryMethod]
DriversTable  == [local |-> EveryMethod, remote |-> {}]
ServersTable  == [local |-> {}, remote |-> EveryMethod]
XmlTables     == [local |-> EveryMethod, remote |-> EveryMethod]

Builds == [unified |-> [wraps |-> Unified, tables |-> UnifiedTables],
           drivers |-> [wraps |-> DriversQueries \cup DriversIO, tables |-> DriversTable],
           servers |-> [wraps |-> ServersQueries \cup ServersIO, tables |-> ServersTable],
           xml     |-> [wraps |-> XmlQueries \cup XmlIO, tables |-> XmlTables]]
=============================================================================
