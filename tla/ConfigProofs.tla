---------------------------- MODULE ConfigProofs ----------------------------
(***************************************************************************)
(* A complete file that names the host's address and the local socket      *)
(* configures the process as it says, and main computes the capacities     *)
(* that Client assumes: for every file, whatever settings it lacks and     *)
(* whatever sizes it has.                                                  *)
(***************************************************************************)
EXTENDS Config, TLAPS

-----------------------------------------------------------------------------
(* The inductive invariant                                                 *)

(* The field that a setting is meant for, by the places of its section and *)
(* of itself.                                                              *)
FieldAt(s, k) == Settings[Sections[s]][k]

SettingsOf(s) == 1..Len(Settings[Sections[s]])

(* The setting has been read, or its section was passed over.              *)
Passed(s, k) == s < section \/ (s = section /\ k < setting)

(* Where a field has its value from if every setting goes where it is      *)
(* meant to.                                                               *)
Intended(f) == IF f \in file.settings THEN FromFile(f) ELSE Fallback(f)

(* The file names what has a fallback that goes to another field.          *)
NoStrayFallback == {"NETWORK_ownIP", "LOCAL_socketPath"} \subseteq file.settings

(* Every setting of a section that is there is in its field once it has    *)
(* been passed, where no stray fallback replaces it: the table sizes       *)
(* always, the others if there is no stray fallback at all.                *)
SettingsInPlace ==
  \A s \in 1..Len(Sections) : \A k \in SettingsOf(s) :
    /\ Passed(s, k)
    /\ Sections[s] \in file.sections
    /\ NoStrayFallback \/ FieldAt(s, k) \in SizeFields
    => config[FieldAt(s, k)] = Intended(FieldAt(s, k))

(* What is left of Allocate once the process is running.                   *)
Allocated ==
  pc = "running" =>
    \E n \in SizesOf("PROTO_N"), m \in SizesOf("PROTO_M"), k \in SizesOf("PROTO_K") :
      capacity = [important |-> (m + k) % Word, random |-> (2 * n) % Word]

Inv ==
  /\ TypeOK
  /\ file \in Files
  /\ pc = "set" => section = 1 /\ setting = 1
  /\ pc # "exited" /\ argument = "sound" => SettingsInPlace
  /\ pc \in {"allocate", "running"} /\ argument = "sound" =>
       section = Len(Sections) + 1
  /\ Allocated

-----------------------------------------------------------------------------
(* Fields                                                                  *)

(* There are five sections, and each is a list of settings.                *)
LEMMA SectionLists ==
  /\ Len(Sections) = 5 /\ DOMAIN Sections = 1..Len(Sections)
  /\ \A s \in 1..Len(Sections) : DOMAIN Settings[Sections[s]] = SettingsOf(s)
  /\ \A s \in 1..Len(Sections) : Len(Settings[Sections[s]]) \in Nat
<1>1. Len(Sections) = 5 /\ DOMAIN Sections = 1..5
  BY DEF Sections
<1>2. /\ Sections[1] = "network_cfg" /\ Sections[2] = "proto_cfg"
      /\ Sections[3] = "deb_cfg" /\ Sections[4] = "local_service_cfg"
      /\ Sections[5] = "radac_cfg"
  BY DEF Sections
<1>3. /\ DOMAIN Settings["network_cfg"] = 1..4 /\ Len(Settings["network_cfg"]) = 4
      /\ DOMAIN Settings["proto_cfg"] = 1..10 /\ Len(Settings["proto_cfg"]) = 10
      /\ DOMAIN Settings["deb_cfg"] = 1..1 /\ Len(Settings["deb_cfg"]) = 1
      /\ DOMAIN Settings["local_service_cfg"] = 1..1
      /\ Len(Settings["local_service_cfg"]) = 1
      /\ DOMAIN Settings["radac_cfg"] = 1..2 /\ Len(Settings["radac_cfg"]) = 2
  BY DEF Settings
<1>4. ASSUME NEW s \in 1..5
      PROVE  /\ DOMAIN Settings[Sections[s]] = 1..Len(Settings[Sections[s]])
             /\ Len(Settings[Sections[s]]) \in Nat
  <2>1. s = 1 \/ s = 2 \/ s = 3 \/ s = 4 \/ s = 5
    OBVIOUS
  <2> QED
    BY <1>2, <1>3, <2>1
<1> QED
  BY <1>1, <1>4 DEF SettingsOf

(* The fields are those the settings are meant for.                        *)
LEMMA FieldsListed ==
  /\ \A s \in 1..Len(Sections) : \A k \in SettingsOf(s) : FieldAt(s, k) \in Fields
  /\ \A f \in Fields : \E s \in 1..Len(Sections) : \E k \in SettingsOf(s) :
       f = FieldAt(s, k)
<1>1. ToSet(Sections) = {Sections[s] : s \in 1..Len(Sections)}
  BY SectionLists DEF ToSet
<1>2. \A s \in 1..Len(Sections) :
        ToSet(Settings[Sections[s]]) = {FieldAt(s, k) : k \in SettingsOf(s)}
  BY SectionLists DEF ToSet, FieldAt
<1>3. ASSUME NEW s \in 1..Len(Sections), NEW k \in SettingsOf(s)
      PROVE  FieldAt(s, k) \in Fields
  <2>1. Sections[s] \in ToSet(Sections)
    BY <1>1
  <2>2. FieldAt(s, k) \in ToSet(Settings[Sections[s]])
    BY <1>2
  <2> QED
    BY <2>1, <2>2 DEF Fields
<1>4. ASSUME NEW f \in Fields
      PROVE  \E s \in 1..Len(Sections) : \E k \in SettingsOf(s) : f = FieldAt(s, k)
  <2>1. PICK name \in ToSet(Sections) : f \in ToSet(Settings[name])
    BY DEF Fields
  <2>2. PICK s \in 1..Len(Sections) : name = Sections[s]
    BY <1>1
  <2>3. f \in {FieldAt(s, k) : k \in SettingsOf(s)}
    BY <1>2, <2>1, <2>2
  <2> QED
    BY <2>3
<1> QED
  BY <1>3, <1>4

(* The table sizes are read in the second section.                         *)
LEMMA SizesListed ==
  /\ 2 \in 1..Len(Sections) /\ Sections[2] = "proto_cfg"
  /\ \A f \in SizeFields : f \in Fields /\ \E k \in SettingsOf(2) : f = FieldAt(2, k)
<1>1. 2 \in 1..Len(Sections) /\ Sections[2] = "proto_cfg"
  BY SectionLists DEF Sections
<1>2. /\ Len(Settings["proto_cfg"]) = 10
      /\ Settings["proto_cfg"][8] = "PROTO_N"
      /\ Settings["proto_cfg"][9] = "PROTO_M"
      /\ Settings["proto_cfg"][10] = "PROTO_K"
  BY DEF Settings
<1>3. \A f \in SizeFields : \E k \in SettingsOf(2) : f = FieldAt(2, k)
  BY <1>1, <1>2 DEF SizeFields, SettingsOf, FieldAt
<1> QED
  BY <1>1, <1>3, FieldsListed

(* The fields that fallbacks go to are fields, and no table sizes.         *)
LEMMA NamedFields ==
  /\ {"NETWORK_ownIP", "NETWORK_originPeerIP", "LOCAL_socketPath", "LOG_path"}
       \subseteq Fields
  /\ {"NETWORK_ownIP", "NETWORK_originPeerIP", "LOCAL_socketPath", "LOG_path"}
       \cap SizeFields = {}
<1>1. /\ Len(Sections) = 5 /\ Sections[1] = "network_cfg"
      /\ Sections[3] = "deb_cfg" /\ Sections[4] = "local_service_cfg"
  BY DEF Sections
<1>2. /\ Len(Settings["network_cfg"]) = 4
      /\ Settings["network_cfg"][1] = "NETWORK_ownIP"
      /\ Settings["network_cfg"][3] = "NETWORK_originPeerIP"
      /\ Len(Settings["deb_cfg"]) = 1 /\ Settings["deb_cfg"][1] = "LOG_path"
      /\ Len(Settings["local_service_cfg"]) = 1
      /\ Settings["local_service_cfg"][1] = "LOCAL_socketPath"
  BY DEF Settings
<1>3. /\ 1 \in SettingsOf(1) /\ FieldAt(1, 1) = "NETWORK_ownIP"
      /\ 3 \in SettingsOf(1) /\ FieldAt(1, 3) = "NETWORK_originPeerIP"
      /\ 1 \in SettingsOf(3) /\ FieldAt(3, 1) = "LOG_path"
      /\ 1 \in SettingsOf(4) /\ FieldAt(4, 1) = "LOCAL_socketPath"
  BY <1>1, <1>2 DEF SettingsOf, FieldAt
<1>4. 1 \in 1..Len(Sections) /\ 3 \in 1..Len(Sections) /\ 4 \in 1..Len(Sections)
  BY <1>1
<1> QED
  BY <1>3, <1>4, FieldsListed DEF SizeFields

(* Every value has an origin that is known.                                *)
LEMMA OriginTypes ==
  /\ Unset \in Origins
  /\ \A f \in Fields : FromFile(f) \in Origins /\ Fallback(f) \in Origins
<1>1. Unset \in Origins
  BY DEF Origins
<1>2. ASSUME NEW f \in Fields PROVE FromFile(f) \in Origins
  BY DEF FromFile, Origins
<1>3. ASSUME NEW f \in Fields PROVE Fallback(f) \in Origins
  <2>1. \/ Fallback(f) = [from |-> "host", field |-> f]
        \/ Fallback(f) = [from |-> "random", field |-> f]
        \/ Fallback(f) = [from |-> "default", field |-> f]
    BY DEF Fallback
  <2> QED
    BY <2>1 DEF Origins
<1> QED
  BY <1>1, <1>2, <1>3

-----------------------------------------------------------------------------
(* Reading                                                                 *)

(* Reading one setting puts a value into its field, or, where a fallback   *)
(* strays, into another.                                                   *)
LEMMA WithSettingProperties ==
  ASSUME NEW c \in [Fields -> Origins], NEW f \in Fields
  PROVE  /\ WithSetting(c, f) \in [Fields -> Origins]
         /\ \A g \in Fields :
              NoStrayFallback \/ g \in SizeFields
              => WithSetting(c, f)[g] = IF g = f THEN Intended(f) ELSE c[g]
<1>1. FromFile(f) \in Origins /\ Fallback(f) \in Origins
  BY OriginTypes
<1>2. CASE f \in file.settings
  <2>1. WithSetting(c, f) = [c EXCEPT ![f] = FromFile(f)]
    BY <1>2 DEF WithSetting
  <2> QED
    BY <1>1, <1>2, <2>1 DEF Intended
<1>3. CASE f \notin file.settings /\ f = "NETWORK_ownIP"
  <2>1. WithSetting(c, f) = [c EXCEPT !["NETWORK_originPeerIP"] = Fallback(f)]
    BY <1>3 DEF WithSetting
  <2>2. ~NoStrayFallback
    BY <1>3 DEF NoStrayFallback
  <2> QED
    BY <1>1, <1>3, <2>1, <2>2, NamedFields
<1>4. CASE f \notin file.settings /\ f = "LOCAL_socketPath"
  <2>1. WithSetting(c, f) = [c EXCEPT !["LOG_path"] = Fallback(f)]
    BY <1>4 DEF WithSetting
  <2>2. ~NoStrayFallback
    BY <1>4 DEF NoStrayFallback
  <2> QED
    BY <1>1, <1>4, <2>1, <2>2, NamedFields
<1>5. CASE f \notin file.settings /\ f # "NETWORK_ownIP" /\ f # "LOCAL_socketPath"
  <2>1. WithSetting(c, f) = [c EXCEPT ![f] = Fallback(f)]
    BY <1>5 DEF WithSetting
  <2> QED
    BY <1>1, <1>5, <2>1 DEF Intended
<1> QED
  BY <1>2, <1>3, <1>4, <1>5

(* What 16 bits hold of a number.                                          *)
LEMMA WordOf ==
  ASSUME NEW x \in Nat
  PROVE  x % Word \in 0..(Word - 1) /\ (x < Word => x % Word = x)
<1>1. Word \in Nat /\ Word > 0
  BY DEF Word
<1>2. x % Word \in 0..(Word - 1)
  BY <1>1
<1>3. ASSUME x < Word PROVE x % Word = x
  BY <1>1, <1>3
<1> QED
  BY <1>2, <1>3

(* Without an argument nothing has been set, and with an unreadable one    *)
(* every field has a default.                                              *)
LEMMA DefaultConfigType == DefaultConfig \in [Fields -> Origins]
BY OriginTypes DEF DefaultConfig

(* A size is a number.                                                     *)
LEMMA SizesAreNumbers ==
  ASSUME file \in Files, NEW f \in SizeFields
  PROVE  SizesOf(f) \subseteq Nat
<1>1. file.sizes \in [SizeFields -> Nat]
  BY SizesAssumption DEF Files
<1>2. file.sizes[f] % Word \in Nat
  BY <1>1 DEF Word
<1>3. DefaultSize[f] \in Nat
  BY DEF SizeFields, DefaultSize
<1> QED
  BY <1>2, <1>3 DEF SizesOf, Word

-----------------------------------------------------------------------------
(* The invariant                                                           *)

(* Before anything is read no setting has been passed.                     *)
LEMMA InvInit == Init => Inv
<1> SUFFICES ASSUME Init PROVE Inv
  OBVIOUS
<1>1. /\ file \in Files /\ pc = "set" /\ section = 1 /\ setting = 1
      /\ config = [f \in Fields |-> Unset]
      /\ capacity = [important |-> 0, random |-> 0]
  BY DEF Init
<1>2. TypeOK
  <2>1. config \in [Fields -> Origins]
    BY <1>1, OriginTypes
  <2>2. capacity \in [{"important", "random"} -> 0..(Word - 1)]
    <3>1. 0 \in 0..(Word - 1)
      BY DEF Word
    <3>2. capacity = [x \in {"important", "random"} |-> 0]
      BY <1>1
    <3> QED
      BY <3>1, <3>2
  <2> QED
    BY <1>1, <2>1, <2>2, SectionLists DEF TypeOK
<1>3. SettingsInPlace
  BY <1>1 DEF SettingsInPlace, Passed, SettingsOf
<1> QED
  BY <1>1, <1>2, <1>3 DEF Inv, Allocated

(* Config_set fills every field or none and has the file read from its     *)
(* first setting.                                                          *)
LEMMA InvSet == Inv /\ Set => Inv'
<1> SUFFICES ASSUME Inv, Set PROVE Inv'
  OBVIOUS
<1>1. /\ TypeOK /\ file \in Files /\ pc = "set" /\ section = 1 /\ setting = 1
  BY DEF Inv, Set
<1>2. /\ file' = file /\ argument' = argument /\ section' = section
      /\ setting' = setting /\ capacity' = capacity
      /\ pc' \in {"allocate", "exited", "read"}
      /\ config' = config \/ config' = DefaultConfig
      /\ argument = "sound" => pc' = "read"
  BY DEF Set
<1>3. TypeOK'
  BY <1>1, <1>2, DefaultConfigType DEF TypeOK
<1>4. SettingsInPlace'
  BY <1>1, <1>2 DEF SettingsInPlace, Passed, SettingsOf
<1> QED
  BY <1>1, <1>2, <1>3, <1>4 DEF Inv, Allocated

(* A setting that is read takes its place and disturbs none before it.     *)
LEMMA InvReadSetting == Inv /\ ReadSetting => Inv'
<1> SUFFICES ASSUME Inv, ReadSetting PROVE Inv'
  OBVIOUS
<1> DEFINE f == FieldAt(section, setting)
<1>1. /\ TypeOK /\ file \in Files
      /\ pc = "read" /\ section <= Len(Sections)
      /\ setting <= Len(Settings[Sections[section]])
      /\ argument = "sound" => SettingsInPlace
  BY DEF Inv, ReadSetting, LooksUp
<1>2. /\ section \in 1..Len(Sections) /\ setting \in SettingsOf(section)
      /\ config \in [Fields -> Origins]
  BY <1>1, SectionLists DEF TypeOK, SettingsOf
<1>3. f \in Fields
  BY <1>2, FieldsListed
<1>4. /\ file' = file /\ argument' = argument /\ section' = section
      /\ capacity' = capacity
  BY DEF ReadSetting
<1>5. CASE pc' = "exited" /\ setting' = setting /\ config' = config
  <2>1. TypeOK'
    BY <1>1, <1>4, <1>5 DEF TypeOK
  <2> QED
    BY <1>1, <1>4, <1>5, <2>1 DEF Inv, Allocated
<1>6. CASE /\ pc' = pc /\ setting' = setting + 1
           /\ config' = WithSetting(config, f)
  <2> HIDE DEF f
  <2>1. /\ config' \in [Fields -> Origins]
        /\ \A g \in Fields :
             NoStrayFallback \/ g \in SizeFields
             => config'[g] = IF g = f THEN Intended(f) ELSE config[g]
    BY <1>2, <1>3, <1>6, WithSettingProperties
  <2>2. TypeOK'
    BY <1>1, <1>2, <1>4, <1>6, <2>1 DEF TypeOK
  <2>3. ASSUME argument = "sound" PROVE SettingsInPlace'
    <3> SUFFICES ASSUME NEW s \in 1..Len(Sections), NEW k \in SettingsOf(s),
                        Passed(s, k)', Sections[s] \in file.sections,
                        NoStrayFallback \/ FieldAt(s, k) \in SizeFields
                 PROVE  config'[FieldAt(s, k)] = Intended(FieldAt(s, k))
      BY <1>4 DEF SettingsInPlace, NoStrayFallback, Intended, SettingsOf, FieldAt
    <3>1. FieldAt(s, k) \in Fields
      BY FieldsListed
    <3>2. config'[FieldAt(s, k)] = IF FieldAt(s, k) = f THEN Intended(f)
                                   ELSE config[FieldAt(s, k)]
      BY <2>1, <3>1
    <3>3. Passed(s, k) \/ (s = section /\ k = setting)
      <4>1. s \in Int /\ k \in Int /\ section \in Int /\ setting \in Int
        BY <1>2, SectionLists DEF SettingsOf
      <4> QED
        BY <1>4, <1>6, <4>1 DEF Passed
    <3>4. CASE Passed(s, k)
      BY <1>1, <2>3, <3>2, <3>4 DEF SettingsInPlace
    <3>5. CASE s = section /\ k = setting
      BY <3>2, <3>5 DEF f
    <3> QED
      BY <3>3, <3>4, <3>5
  <2> QED
    BY <1>1, <1>4, <1>6, <2>2, <2>3 DEF Inv, Allocated
<1> QED
  BY <1>5, <1>6 DEF ReadSetting, LooksUp, FieldAt

(* At the end of a section all of its settings have been passed.           *)
LEMMA InvNextSection == Inv /\ NextSection => Inv'
<1> SUFFICES ASSUME Inv, NextSection PROVE Inv'
  OBVIOUS
<1>1. /\ TypeOK /\ file \in Files /\ pc = "read" /\ section <= Len(Sections)
      /\ \/ Sections[section] \notin file.sections
         \/ setting > Len(Settings[Sections[section]])
      /\ argument = "sound" => SettingsInPlace
  BY DEF Inv, NextSection
<1>2. /\ file' = file /\ argument' = argument /\ pc' = pc /\ config' = config
      /\ capacity' = capacity /\ section' = section + 1 /\ setting' = 1
  BY DEF NextSection
<1>3. section \in Int /\ setting \in Int
  BY <1>1 DEF TypeOK
<1>4. TypeOK'
  BY <1>1, <1>2, SectionLists DEF TypeOK
<1>5. ASSUME argument = "sound" PROVE SettingsInPlace'
  <2> SUFFICES ASSUME NEW s \in 1..Len(Sections), NEW k \in SettingsOf(s),
                      Passed(s, k)', Sections[s] \in file.sections,
                      NoStrayFallback \/ FieldAt(s, k) \in SizeFields
               PROVE  config[FieldAt(s, k)] = Intended(FieldAt(s, k))
    BY <1>2 DEF SettingsInPlace, NoStrayFallback, Intended, SettingsOf, FieldAt
  <2>1. /\ s \in Int /\ k \in Int /\ 1 <= k
        /\ k <= Len(Settings[Sections[s]]) /\ Len(Settings[Sections[s]]) \in Nat
    BY SectionLists DEF SettingsOf
  <2>2. s < section \/ s = section
    BY <1>2, <1>3, <2>1 DEF Passed
  <2>3. s = section => k < setting
    BY <1>1, <1>3, <2>1
  <2>4. Passed(s, k)
    BY <2>2, <2>3 DEF Passed
  <2> QED
    BY <1>1, <1>5, <2>4 DEF SettingsInPlace
<1> QED
  BY <1>1, <1>2, <1>4, <1>5 DEF Inv, Allocated

LEMMA InvFinishReading == Inv /\ FinishReading => Inv'
<1> SUFFICES ASSUME Inv, FinishReading PROVE Inv'
  OBVIOUS
<1>1. /\ TypeOK /\ file \in Files /\ pc = "read" /\ section > Len(Sections)
      /\ argument = "sound" => SettingsInPlace
  BY DEF Inv, FinishReading
<1>2. /\ file' = file /\ argument' = argument /\ pc' = "allocate"
      /\ config' = config /\ capacity' = capacity /\ section' = section
      /\ setting' = setting
  BY DEF FinishReading
<1>3. section = Len(Sections) + 1
  BY <1>1, SectionLists DEF TypeOK
<1>4. TypeOK'
  BY <1>1, <1>2 DEF TypeOK
<1>5. argument = "sound" => SettingsInPlace'
  BY <1>1, <1>2 DEF SettingsInPlace, Passed, NoStrayFallback, Intended
<1> QED
  BY <1>1, <1>2, <1>3, <1>4, <1>5 DEF Inv, Allocated

(* main computes the capacities and leaves the configuration alone.        *)
LEMMA InvAllocate == Inv /\ Allocate => Inv'
<1> SUFFICES ASSUME Inv, Allocate PROVE Inv'
  OBVIOUS
<1>1. /\ TypeOK /\ file \in Files /\ pc = "allocate"
      /\ argument = "sound" => SettingsInPlace /\ section = Len(Sections) + 1
  BY DEF Inv, Allocate
<1>2. /\ file' = file /\ argument' = argument /\ pc' = "running"
      /\ config' = config /\ section' = section /\ setting' = setting
  BY DEF Allocate
<1>3. PICK n \in SizesOf("PROTO_N"), m \in SizesOf("PROTO_M"),
           k \in SizesOf("PROTO_K") :
        capacity' = [important |-> (m + k) % Word, random |-> (2 * n) % Word]
  BY DEF Allocate
<1>4. n \in Nat /\ m \in Nat /\ k \in Nat
  BY <1>1, SizesAreNumbers DEF SizeFields
<1>5. (m + k) % Word \in 0..(Word - 1) /\ (2 * n) % Word \in 0..(Word - 1)
  <2>1. m + k \in Nat /\ 2 * n \in Nat
    BY <1>4
  <2> QED
    BY <2>1, WordOf
<1>6. TypeOK'
  BY <1>1, <1>2, <1>3, <1>5 DEF TypeOK
<1>7. argument = "sound" => SettingsInPlace'
  BY <1>1, <1>2 DEF SettingsInPlace, Passed, NoStrayFallback, Intended
<1>8. Allocated'
  BY <1>2, <1>3 DEF Allocated, SizesOf
<1> QED
  BY <1>1, <1>2, <1>6, <1>7, <1>8 DEF Inv

(* When the log cannot be opened nothing but the process ends.             *)
LEMMA InvLogFails == Inv /\ LogFails => Inv'
<1> SUFFICES ASSUME Inv, LogFails PROVE Inv'
  OBVIOUS
<1>1. /\ file' = file /\ argument' = argument /\ pc' = "exited"
      /\ section' = section /\ setting' = setting /\ config' = config
      /\ capacity' = capacity
  BY DEF LogFails
<1>2. TypeOK'
  BY <1>1 DEF Inv, TypeOK
<1> QED
  BY <1>1, <1>2 DEF Inv, Allocated

LEMMA InvStutter == Inv /\ UNCHANGED vars => Inv'
<1> SUFFICES ASSUME Inv, UNCHANGED vars PROVE Inv'
  OBVIOUS
<1>1. /\ file' = file /\ argument' = argument /\ pc' = pc /\ section' = section
      /\ setting' = setting /\ config' = config /\ capacity' = capacity
  BY DEF vars
<1>2. TypeOK' <=> TypeOK
  BY <1>1 DEF TypeOK
<1>3. SettingsInPlace' <=> SettingsInPlace
  BY <1>1 DEF SettingsInPlace, Passed, NoStrayFallback, Intended
<1>4. Allocated' <=> Allocated
  BY <1>1 DEF Allocated, SizesOf
<1> QED
  BY <1>1, <1>2, <1>3, <1>4 DEF Inv

LEMMA Invariance == Spec => []Inv
<1>1. Inv /\ [Next]_vars => Inv'
  BY InvSet, InvReadSetting, InvNextSection, InvFinishReading, InvAllocate,
     InvLogFails, InvStutter DEF Next
<1> QED
  BY InvInit, <1>1, PTL DEF Spec

-----------------------------------------------------------------------------
(* The theorems                                                            *)

(* Every field has an origin that is known, and the capacities fit 16 bits *)
(* (maxNodeCount).                                                         *)
THEOREM TypeCorrect == Spec => []TypeOK
<1>1. Inv => TypeOK
  BY DEF Inv
<1> QED
  BY Invariance, <1>1, PTL

(* When the process runs, a setting that is there, or one of a section     *)
(* that is, has been read.                                                 *)
LEMMA AllRead ==
  ASSUME Inv, pc = "running", argument = "sound",
         NEW s \in 1..Len(Sections), NEW k \in SettingsOf(s),
         Sections[s] \in file.sections,
         NoStrayFallback \/ FieldAt(s, k) \in SizeFields
  PROVE  config[FieldAt(s, k)] = Intended(FieldAt(s, k))
<1>1. SettingsInPlace /\ section = Len(Sections) + 1
  BY DEF Inv
<1>2. Passed(s, k)
  BY <1>1, SectionLists DEF Passed
<1> QED
  BY <1>1, <1>2 DEF SettingsInPlace

(* A complete file that names the host's address and the local socket      *)
(* fills every field with its own setting, or with its own default where   *)
(* that is missing (Config_readFromFile).                                  *)
THEOREM WellConfiguredHolds == Spec => []WellConfigured
<1>1. Inv => WellConfigured
  <2> SUFFICES ASSUME Inv, pc = "running", argument = "sound",
                      file.sections = ToSet(Sections),
                      {"NETWORK_ownIP", "LOCAL_socketPath"} \subseteq file.settings
               PROVE  config = [f \in Fields |-> IF f \in file.settings
                                                 THEN FromFile(f) ELSE Fallback(f)]
    BY DEF WellConfigured
  <2>1. NoStrayFallback
    BY DEF NoStrayFallback
  <2>2. config \in [Fields -> Origins]
    BY DEF Inv, TypeOK
  <2>3. ASSUME NEW f \in Fields PROVE config[f] = Intended(f)
    <3>1. PICK s \in 1..Len(Sections) : \E k \in SettingsOf(s) : f = FieldAt(s, k)
      BY FieldsListed
    <3>2. PICK k \in SettingsOf(s) : f = FieldAt(s, k)
      BY <3>1
    <3>3. Sections[s] \in file.sections
      BY SectionLists DEF ToSet
    <3> QED
      BY <2>1, <3>2, <3>3, AllRead
  <2> QED
    BY <2>2, <2>3 DEF Intended
<1> QED
  BY Invariance, <1>1, PTL

(* With sizes up to the hard limit main allocates M + K and 2 * N places:  *)
(* nothing overflows, and neither a fallback nor a missing setting         *)
(* elsewhere changes the sizes.                                            *)
THEOREM CapacitiesHold == Spec => []CapacitiesAsAssumed
<1>1. Inv => CapacitiesAsAssumed
  <2> DEFINE size == [f \in SizeFields |-> IF f \in file.settings THEN file.sizes[f]
                                           ELSE DefaultSize[f]]
  <2> SUFFICES ASSUME Inv, pc = "running", argument = "sound",
                      "proto_cfg" \in file.sections,
                      \A f \in SizeFields : size[f] <= HardLimit
               PROVE  capacity = [important |-> size["PROTO_M"] + size["PROTO_K"],
                                  random |-> 2 * size["PROTO_N"]]
    BY DEF CapacitiesAsAssumed
  <2>1. file.sizes \in [SizeFields -> Nat]
    BY SizesAssumption DEF Inv, Files
  <2>2. ASSUME NEW f \in SizeFields
        PROVE  /\ size[f] \in Nat /\ size[f] <= HardLimit
               /\ SizesOf(f) = {size[f]}
    <3>1. PICK k \in SettingsOf(2) : f = FieldAt(2, k)
      BY SizesListed
    <3>2. config[f] = Intended(f)
      BY <3>1, SizesListed, AllRead
    <3>3. CASE f \in file.settings
      <4>1. config[f].from = "file"
        BY <3>2, <3>3 DEF Intended, FromFile
      <4>2. size[f] = file.sizes[f] /\ size[f] \in Nat /\ size[f] <= HardLimit
        BY <2>1, <3>3
      <4> HIDE DEF size
      <4>3. size[f] % Word = size[f]
        BY <4>2 DEF Word, HardLimit
      <4> QED
        BY <4>1, <4>2, <4>3 DEF SizesOf
    <3>4. CASE f \notin file.settings
      <4>1. config[f].from = "default"
        BY <3>2, <3>4 DEF Intended, Fallback, SizeFields
      <4>2. size[f] = DefaultSize[f] /\ size[f] <= HardLimit
        BY <3>4
      <4>3. DefaultSize[f] \in Nat
        BY DEF SizeFields, DefaultSize
      <4> HIDE DEF size
      <4> QED
        BY <4>1, <4>2, <4>3 DEF SizesOf
    <3> QED
      BY <3>3, <3>4
  <2>3. PICK n \in SizesOf("PROTO_N"), m \in SizesOf("PROTO_M"),
             k \in SizesOf("PROTO_K") :
          capacity = [important |-> (m + k) % Word, random |-> (2 * n) % Word]
    BY DEF Inv, Allocated
  <2> HIDE DEF size
  <2>4. /\ n = size["PROTO_N"] /\ n \in Nat /\ n <= HardLimit
        /\ m = size["PROTO_M"] /\ m \in Nat /\ m <= HardLimit
        /\ k = size["PROTO_K"] /\ k \in Nat /\ k <= HardLimit
    BY <2>2, <2>3 DEF SizeFields
  <2>5. (m + k) % Word = m + k /\ (2 * n) % Word = 2 * n
    <3>1. m + k \in Nat /\ 2 * n \in Nat /\ m + k < Word /\ 2 * n < Word
      BY <2>4 DEF Word, HardLimit
    <3> QED
      BY <3>1, WordOf
  <2> QED
    BY <2>3, <2>4, <2>5
<1> QED
  BY Invariance, <1>1, PTL

=============================================================================
