------------------------------- MODULE Config -------------------------------
(***************************************************************************)
(* How the configuration comes about in src/configuration.c, and what main *)
(* makes of the table sizes.  A field holds the origin of its value, not   *)
(* the value: nothing (the memory is not cleared), the file, a default,    *)
(* the addresses of the host or the random generator.  The table sizes N,  *)
(* M and K are numbers, since main computes capacities of 16 bits from     *)
(* them.                                                                   *)
(***************************************************************************)
EXTENDS Integers, Sequences, SequencesExt, FiniteSets

CONSTANTS
  Missing,     \* bound: settings that a file may lack in its sections
  SizeChoices  \* the values of proto_N, proto_M and proto_K in files

(* The sections and settings in the order in which they are read; a        *)
(* setting has the name of the field it is meant for.                      *)
Sections ==
  <<"network_cfg", "proto_cfg", "deb_cfg", "local_service_cfg", "radac_cfg">>

Settings ==
  [network_cfg |-> <<"NETWORK_ownIP", "NETWORK_port",
                     "NETWORK_originPeerIP", "NETWORK_originPeerPort">>,
   proto_cfg |-> <<"CLIENT_id", "PROTO_timeout", "PROTO_timeout_variation",
                   "CLIENT_lat", "CLIENT_lon", "CLIENT_coordRange",
                   "PROTO_nodeMaxAge", "PROTO_N", "PROTO_M", "PROTO_K">>,
   deb_cfg |-> <<"LOG_path">>,
   local_service_cfg |-> <<"LOCAL_socketPath">>,
   radac_cfg |-> <<"RADAC_ip", "RADAC_port">>]

Fields == UNION {ToSet(Settings[s]) : s \in ToSet(Sections)}

(* Settings without which reading fails.                                   *)
Required == {"NETWORK_port", "NETWORK_originPeerIP", "NETWORK_originPeerPort",
             "RADAC_ip", "RADAC_port"}

SizeFields == {"PROTO_N", "PROTO_M", "PROTO_K"}

DefaultSize == [PROTO_N |-> 10, PROTO_M |-> 30, PROTO_K |-> 15]

HardLimit == 10000   \* P2PDPRD_NODES_MAX_SIZE
Word == 65536        \* the sizes and capacities are uint16_t

ASSUME SizesAssumption == SizeChoices \subseteq [SizeFields -> Nat]

VARIABLES
  file,       \* the sections and settings of the file, and its sizes
  argument,   \* argv[1]: "none", or the file is "unreadable", "damaged" or
              \* "sound"
  pc,         \* "set", "read", "allocate", "running" or "exited"
  section,    \* index of the section that is read next
  setting,    \* index of the setting that is read next in it
  config,     \* for each field the origin of its value
  capacity    \* maxNodeCount of the important and of the random nodes

vars == <<file, argument, pc, section, setting, config, capacity>>

Unset == [from |-> "nowhere", field |-> "none"]
FromFile(f) == [from |-> "file", field |-> f]
Fallback(f) == [from |-> CASE f = "NETWORK_ownIP" -> "host"
                           [] f = "CLIENT_id" -> "random"
                           [] OTHER -> "default",
                field |-> f]

Files ==
  {[sections |-> s, settings |-> Fields \ m, sizes |-> z] :
     s \in SUBSET ToSet(Sections), z \in SizeChoices,
     m \in {n \in SUBSET Fields : Cardinality(n) <= Missing}}

Init ==
  /\ file \in Files
  /\ argument \in {"none", "unreadable", "damaged", "sound"}
  /\ pc = "set"
  /\ section = 1 /\ setting = 1
  /\ config = [f \in Fields |-> Unset]
  /\ capacity = [important |-> 0, random |-> 0]

-----------------------------------------------------------------------------
(* Config_setToDefault.                                                    *)
DefaultConfig == [f \in Fields |-> Fallback(f)]

(* Config_set: without an argument nothing is set.                         *)
Set ==
  /\ pc = "set"
  /\ \/ argument = "none" /\ pc' = "allocate" /\ UNCHANGED config
     \/ argument = "unreadable" /\ pc' = "allocate" /\ config' = DefaultConfig
     \/ argument = "damaged" /\ pc' = "exited" /\ UNCHANGED config
     \/ argument = "sound" /\ pc' = "read" /\ UNCHANGED config
  /\ UNCHANGED <<file, argument, section, setting, capacity>>

(* Mutant: a setting that is not there leaves its field alone.             *)
WithoutFallback(c, f) ==
  IF f \in file.settings THEN [c EXCEPT ![f] = FromFile(f)] ELSE c

(* One setting that is present or has a fallback.  The fallback of the     *)
(* own address is written to the origin peer's, and that of the local      *)
(* socket's path to the path of the log.                                   *)
WithSetting(c, f) ==
  IF f \in file.settings THEN [c EXCEPT ![f] = FromFile(f)]
  ELSE IF f = "NETWORK_ownIP"
       THEN [c EXCEPT !.NETWORK_originPeerIP = Fallback(f)]
  ELSE IF f = "LOCAL_socketPath" THEN [c EXCEPT !.LOG_path = Fallback(f)]
  ELSE [c EXCEPT ![f] = Fallback(f)]

(* The setting f, of a section that is there, is looked up next.           *)
LooksUp(f) ==
  /\ pc = "read" /\ section <= Len(Sections)
  /\ Sections[section] \in file.sections
  /\ setting <= Len(Settings[Sections[section]])
  /\ f = Settings[Sections[section]][setting]

(* Config_readFromFile: without a required setting reading fails, and      *)
(* Config_set exits.                                                       *)
ReadSetting ==
  \E f \in Fields :
    /\ LooksUp(f)
    /\ IF f \in Required \ file.settings
       THEN pc' = "exited" /\ UNCHANGED <<setting, config>>
       ELSE /\ config' = WithSetting(config, f)
            /\ setting' = setting + 1
            /\ UNCHANGED pc
    /\ UNCHANGED <<file, argument, section, capacity>>

(* The section is at its end, or is not there and passed over.             *)
NextSection ==
  /\ pc = "read" /\ section <= Len(Sections)
  /\ \/ Sections[section] \notin file.sections
     \/ setting > Len(Settings[Sections[section]])
  /\ section' = section + 1
  /\ setting' = 1
  /\ UNCHANGED <<file, argument, pc, config, capacity>>

FinishReading ==
  /\ pc = "read" /\ section > Len(Sections)
  /\ pc' = "allocate"
  /\ UNCHANGED <<file, argument, section, setting, config, capacity>>

(* The size that is in a field.  One that was never set may be anything:   *)
(* the extremes stand for it.                                              *)
SizesOf(f) ==
  CASE config[f].from = "file" -> {file.sizes[f] % Word}
    [] config[f].from = "default" -> {DefaultSize[f]}
    [] OTHER -> {0, Word - 1}

(* Mutants: no room is left for the nodes that are received; the sums are  *)
(* not cut to 16 bits.                                                     *)
AllocateTight ==
  /\ pc = "allocate"
  /\ \E n \in SizesOf("PROTO_N"), m \in SizesOf("PROTO_M") :
       capacity' = [important |-> m, random |-> (2 * n) % Word]
  /\ pc' = "running"
  /\ UNCHANGED <<file, argument, section, setting, config>>

AllocateWide ==
  /\ pc = "allocate"
  /\ \E n \in SizesOf("PROTO_N"), m \in SizesOf("PROTO_M"), k \in SizesOf("PROTO_K") :
       capacity' = [important |-> m + k, random |-> 2 * n]
  /\ pc' = "running"
  /\ UNCHANGED <<file, argument, section, setting, config>>

(* log_event exits when it cannot open the log, whose path may not have    *)
(* been set yet, or not be writable.  A line is written when the address   *)
(* of the host is fetched (getHostIPAddress), for the default or in place  *)
(* of a missing host_ip, and by main once the configuration is set.        *)
LogFails ==
  /\ \/ pc = "set" /\ argument = "unreadable"
     \/ LooksUp("NETWORK_ownIP") /\ "NETWORK_ownIP" \notin file.settings
     \/ pc = "allocate"
  /\ pc' = "exited"
  /\ UNCHANGED <<file, argument, section, setting, config, capacity>>

(* main allocates the two collections.                                     *)
Allocate ==
  /\ pc = "allocate"
  /\ \E n \in SizesOf("PROTO_N"), m \in SizesOf("PROTO_M"), k \in SizesOf("PROTO_K") :
       capacity' = [important |-> (m + k) % Word, random |-> (2 * n) % Word]
  /\ pc' = "running"
  /\ UNCHANGED <<file, argument, section, setting, config>>

Next == Set \/ ReadSetting \/ NextSection \/ FinishReading \/ LogFails \/ Allocate

Spec == Init /\ [][Next]_vars

-----------------------------------------------------------------------------
(* Properties                                                              *)

Origins == {[from |-> o, field |-> f] :
              o \in {"file", "default", "host", "random"}, f \in Fields} \union {Unset}

(* The type invariant.                                                     *)
TypeOK ==
  /\ pc \in {"set", "read", "allocate", "running", "exited"}
  /\ section \in 1..(Len(Sections) + 1)
  /\ setting \in Nat \ {0}
  /\ config \in [Fields -> Origins]
  /\ capacity \in [{"important", "random"} -> 0..(Word - 1)]

(* A file with all sections that names the host's address and the local    *)
(* socket configures the process: every field has its setting if that is   *)
(* there and its own fallback otherwise (Config_readFromFile).             *)
WellConfigured ==
  pc = "running" /\ argument = "sound"
    /\ file.sections = ToSet(Sections)
    /\ {"NETWORK_ownIP", "LOCAL_socketPath"} \subseteq file.settings
  => config = [f \in Fields |-> IF f \in file.settings THEN FromFile(f)
                                ELSE Fallback(f)]

(* What Client assumes of the capacities that main passes to               *)
(* NodeCollection_new: M + K and 2 * N, for every file with the section    *)
(* and reasonable sizes, whatever else is missing.                         *)
CapacitiesAsAssumed ==
  LET size == [f \in SizeFields |-> IF f \in file.settings THEN file.sizes[f]
                                    ELSE DefaultSize[f]]
  IN  pc = "running" /\ argument = "sound" /\ "proto_cfg" \in file.sections
        /\ (\A f \in SizeFields : size[f] <= HardLimit)
      => capacity = [important |-> size.PROTO_M + size.PROTO_K,
                     random |-> 2 * size.PROTO_N]
=============================================================================
