------------------------ MODULE SettingsStoreProofs ------------------------
(***************************************************************************)
(* An update answered with success survives: PromiseKept, for every        *)
(* default and every set of profiles, MTUs and connection parameters.      *)
(*                                                                         *)
(* PromiseKept speaks of finished updates only.  The invariant adds what   *)
(* is known halfway through one: the group under way is not promised, the  *)
(* keys still to be saved are its own, and the others of its keys are in   *)
(* flash as they are in RAM.                                               *)
(***************************************************************************)
EXTENDS SettingsStore, SequenceTheorems, TLAPS

StillToSave(k) == \E i \in 1..Len(left) : left[i] = k

Shape ==
    /\ DOMAIN config = Key
    /\ DOMAIN promised \subseteq Group
    /\ updating \in Group \union {"none"}
    /\ left \in Seq(Key)

Halfway ==
    updating \in Group =>
        /\ left # <<>>
        /\ updating \notin DOMAIN promised
        /\ \A i \in 1..Len(left) : left[i] \in KeySet(updating)
        /\ \A k \in KeySet(updating) :
              StillToSave(k) \/ (k \in DOMAIN flash /\ flash[k] = config[k])

\* PromiseKept key by key.
Kept ==
    \A g \in DOMAIN promised :
        /\ promised[g] = Part(config, g)
        /\ \A k \in KeySet(g) : Loaded[k] = config[k]

PromiseInv == Shape /\ Halfway /\ Kept

----------------------------------------------------------------------------
\* The keys of each group.
LEMMA KeySets ==
    /\ KeySet("profile") = {"service_uuid", "notify_uuid", "write_uuid"}
    /\ KeySet("mtu") = {"mtu"}
    /\ KeySet("params") = {"conn_interval_min", "conn_interval_max", "latency", "timeout"}
<1>1. KeysOf["profile"] = <<"service_uuid", "notify_uuid", "write_uuid">>
  BY DEF KeysOf
<1>2. KeysOf["mtu"] = <<"mtu">>
  BY DEF KeysOf
<1>3. KeysOf["params"] = <<"conn_interval_min", "conn_interval_max", "latency", "timeout">>
  BY DEF KeysOf
<1>4. KeySet("profile") = {"service_uuid", "notify_uuid", "write_uuid"}
  BY <1>1 DEF KeySet, Range
<1>5. KeySet("mtu") = {"mtu"}
  BY <1>2 DEF KeySet, Range
<1>6. KeySet("params") = {"conn_interval_min", "conn_interval_max", "latency", "timeout"}
  BY <1>3 DEF KeySet, Range
<1> QED
  BY <1>4, <1>5, <1>6

\* The sequence of a group's keys holds those keys, and no key is in two groups.
LEMMA KeysOfGroup ==
    ASSUME NEW g \in Group
    PROVE  /\ KeysOf[g] \in Seq(Key) /\ KeysOf[g] # <<>>
           /\ \A i \in 1..Len(KeysOf[g]) : KeysOf[g][i] \in KeySet(g)
           /\ \A k \in KeySet(g) : \E i \in 1..Len(KeysOf[g]) : KeysOf[g][i] = k
           /\ KeySet(g) \subseteq Key
           /\ \A h \in Group \ {g} : KeySet(h) \cap KeySet(g) = {}
<1>1. KeySet(g) \subseteq Key
  BY DEF Key
<1>2. \A h \in Group \ {g} : KeySet(h) \cap KeySet(g) = {}
  BY KeySets DEF Group
<1>3. KeysOf[g] \in Seq(KeySet(g)) /\ KeysOf[g] # <<>>
  <2>1. CASE g = "profile"
    BY <2>1, KeySets DEF KeysOf
  <2>2. CASE g = "mtu"
    BY <2>2, KeySets DEF KeysOf
  <2>3. CASE g = "params"
    BY <2>3, KeySets DEF KeysOf
  <2> QED
    BY <2>1, <2>2, <2>3 DEF Group
<1>4. DOMAIN KeysOf[g] = 1..Len(KeysOf[g])
  BY <1>3
<1>5. \A i \in 1..Len(KeysOf[g]) : KeysOf[g][i] \in KeySet(g)
  BY <1>4 DEF KeySet, Range
<1>6. \A k \in KeySet(g) : \E i \in 1..Len(KeysOf[g]) : KeysOf[g][i] = k
  BY <1>4 DEF KeySet, Range
<1>7. KeysOf[g] \in Seq(Key)
  BY <1>1, <1>3
<1> QED
  BY <1>1, <1>2, <1>3, <1>5, <1>6, <1>7

\* The next key to be saved, and those after it.
LEMMA NextKey ==
    ASSUME left \in Seq(Key), left # <<>>
    PROVE  /\ Tail(left) \in Seq(Key)
           /\ Len(left) \in Nat \ {0}
           /\ Len(Tail(left)) = Len(left) - 1
           /\ Head(left) = left[1]
           /\ \A i \in 1..Len(Tail(left)) : Tail(left)[i] = left[i + 1]
<1>1. Len(left) \in Nat \ {0}
  BY EmptySeq
<1> QED
  BY <1>1, HeadTailProperties

----------------------------------------------------------------------------
\* At the first boot nothing is stored and everything compiled in is promised.
LEMMA PromiseInit == Init => PromiseInv
<1> SUFFICES ASSUME Init PROVE PromiseInv
  OBVIOUS
<1> USE DEF Init
<1>1. Shape
  BY DefaultAssumption DEF Shape
<1>2. Halfway
  BY DEF Halfway, Group
<1>3. Kept
  <2>1. Loaded = [k \in Key |-> Default[k]]
    BY DEF Loaded
  <2>2. \A g \in Group : KeySet(g) \subseteq Key
    BY KeysOfGroup
  <2> QED
    BY <2>1, <2>2 DEF Kept
<1> QED
  BY <1>1, <1>2, <1>3 DEF PromiseInv

\* An update puts its group outside the promise and leaves the other groups alone.
LEMMA UpdateKeepsPromise ==
    ASSUME PromiseInv, NEW g \in Group, NEW v, Update(g, v)
    PROVE  PromiseInv'
<1> USE DEF PromiseInv
<1>1. /\ config' = [k \in Key |-> IF k \in KeySet(g) THEN v[k] ELSE config[k]]
      /\ updating' = g /\ left' = KeysOf[g]
      /\ promised' = [h \in DOMAIN promised \ {g} |-> promised[h]]
      /\ flash' = flash
  BY DEF Update, Restrict
<1>2. Shape'
  BY <1>1, KeysOfGroup DEF Shape
<1>3. Halfway'
  BY <1>1, KeysOfGroup DEF Halfway, StillToSave
<1>4. Kept'
  <2> SUFFICES ASSUME NEW h \in DOMAIN promised'
               PROVE  /\ promised'[h] = Part(config', h)
                      /\ \A k \in KeySet(h) : Loaded'[k] = config'[k]
    BY DEF Kept, Part
  <2>1. h \in DOMAIN promised /\ h # g /\ h \in Group /\ promised'[h] = promised[h]
    BY <1>1 DEF Shape
  <2>2. \A k \in KeySet(h) : k \in Key /\ k \notin KeySet(g)
    BY <2>1, KeysOfGroup
  <2>3. \A k \in KeySet(h) : config'[k] = config[k]
    BY <1>1, <2>2
  <2>4. Loaded' = Loaded
    BY <1>1 DEF Loaded
  <2>5. Part(config', h) = Part(config, h)
    BY <2>3 DEF Part, Restrict
  <2> QED
    BY <2>1, <2>3, <2>4, <2>5 DEF Kept
<1> QED
  BY <1>2, <1>3, <1>4

\* A save brings one more key of the group under way to flash; the last one makes
\* the promise.
LEMMA SaveKeepsPromise ==
    ASSUME PromiseInv, SaveOne
    PROVE  PromiseInv'
<1> USE DEF PromiseInv
<1> DEFINE k0 == Head(left)
<1>1. updating \in Group /\ left \in Seq(Key) /\ left # <<>>
  BY DEF SaveOne, Idle, Shape, Halfway
<1>2. k0 \in KeySet(updating) /\ k0 \in Key
  <2>1. 1 \in 1..Len(left) /\ k0 = left[1]
    BY <1>1, NextKey
  <2> QED
    BY <1>1, <2>1, KeysOfGroup DEF Halfway
<1>3. /\ flash' = [k \in DOMAIN flash \union {k0} |-> IF k = k0 THEN config[k] ELSE flash[k]]
      /\ left' = Tail(left)
      /\ config' = config
  BY DEF SaveOne
<1>4. \A k \in Key : Loaded'[k] = IF k = k0 THEN config[k] ELSE Loaded[k]
  BY <1>2, <1>3 DEF Loaded
<1>5. \A k \in KeySet(updating) :
         k # k0 /\ ~StillToSave(k)' => k \in DOMAIN flash /\ flash[k] = config[k]
  <2> SUFFICES ASSUME NEW k \in KeySet(updating), k # k0, StillToSave(k)
               PROVE  StillToSave(k)'
    BY <1>1 DEF Halfway
  <2>1. PICK i \in 1..Len(left) : left[i] = k
    BY DEF StillToSave
  <2>2. i # 1
    BY <1>1, <2>1, NextKey
  <2>3. i - 1 \in 1..Len(Tail(left)) /\ Tail(left)[i - 1] = left[i]
    BY <1>1, <2>1, <2>2, NextKey
  <2> QED
    BY <1>3, <2>1, <2>3 DEF StillToSave
<1>6. \A k \in KeySet(updating) :
         StillToSave(k)' \/ (k \in DOMAIN flash' /\ flash'[k] = config'[k])
  BY <1>3, <1>5
<1>7. \A i \in 1..Len(left') : left'[i] \in KeySet(updating)
  <2> SUFFICES ASSUME NEW i \in 1..Len(left') PROVE left'[i] \in KeySet(updating)
    OBVIOUS
  <2>1. left'[i] = left[i + 1] /\ i + 1 \in 1..Len(left)
    BY <1>1, <1>3, NextKey
  <2> QED
    BY <1>1, <2>1 DEF Halfway
<1>8. \A g \in DOMAIN promised : Part(config', g) = promised[g]
                                  /\ \A k \in KeySet(g) : Loaded'[k] = config'[k]
  <2> SUFFICES ASSUME NEW g \in DOMAIN promised
               PROVE  /\ Part(config', g) = promised[g]
                      /\ \A k \in KeySet(g) : Loaded'[k] = config'[k]
    OBVIOUS
  <2>1. g \in Group
    BY DEF Shape
  <2>2. KeySet(g) \subseteq Key
    BY <2>1, KeysOfGroup
  <2> QED
    BY <1>3, <1>4, <2>2 DEF Kept
<1>9. CASE Len(left) = 1
  <2>1. /\ updating' = "none"
        /\ promised' = [g \in DOMAIN promised \union {updating} |->
                           IF g = updating THEN Part(config, g) ELSE promised[g]]
    BY <1>9 DEF SaveOne
  <2>2. Shape'
    BY <1>1, <1>3, <2>1, NextKey DEF Shape
  <2>3. Halfway'
    BY <2>1 DEF Halfway, Group
  <2>4. \A k \in KeySet(updating) : Loaded'[k] = config'[k]
    <3>1. \A k \in KeySet(updating) : ~StillToSave(k)'
      BY <1>1, <1>3, <1>9, NextKey DEF StillToSave
    <3>2. KeySet(updating) \subseteq Key
      BY <1>1, KeysOfGroup
    <3> QED
      BY <1>6, <3>1, <3>2 DEF Loaded
  <2>5. Kept'
    <3> SUFFICES ASSUME NEW g \in DOMAIN promised'
                 PROVE  /\ promised'[g] = Part(config', g)
                        /\ \A k \in KeySet(g) : Loaded'[k] = config'[k]
      BY DEF Kept, Part
    <3>1. CASE g = updating
      BY <1>3, <2>1, <2>4, <3>1
    <3>2. CASE g # updating
      BY <1>8, <2>1, <3>2
    <3> QED
      BY <3>1, <3>2
  <2> QED
    BY <2>2, <2>3, <2>5
<1>10. CASE Len(left) # 1
  <2>1. updating' = updating /\ promised' = promised
    BY <1>10 DEF SaveOne
  <2>2. Shape'
    BY <1>1, <1>3, <2>1, NextKey DEF Shape
  <2>3. left' # <<>>
    <3>1. Len(left') # 0
      BY <1>1, <1>3, <1>10, NextKey
    <3> QED
      BY <3>1, EmptySeq
  <2>4. Halfway'
    BY <1>1, <1>6, <1>7, <2>1, <2>3 DEF Halfway
  <2>5. Kept'
    BY <1>8, <2>1 DEF Kept, Part
  <2> QED
    BY <2>2, <2>4, <2>5
<1> QED
  BY <1>9, <1>10

\* A boot takes over what Loaded says, which is what was promised.
LEMMA RebootKeepsPromise ==
    ASSUME PromiseInv, Reboot
    PROVE  PromiseInv'
<1> USE DEF PromiseInv
<1>1. config' = Loaded /\ updating' = "none" /\ left' = <<>> /\ flash' = flash
      /\ promised' = promised
  BY DEF Reboot
<1>2. Shape'
  BY <1>1 DEF Shape, Loaded
<1>3. Halfway'
  BY <1>1 DEF Halfway, Group
<1>4. Loaded' = Loaded
  BY <1>1 DEF Loaded
<1>5. \A g \in DOMAIN promised : Part(Loaded, g) = Part(config, g)
  BY DEF Kept, Part, Restrict
<1>6. Kept'
  BY <1>1, <1>4, <1>5 DEF Kept, Part
<1> QED
  BY <1>2, <1>3, <1>6

\* Every other step leaves the configuration, its copy and the promise alone.
LEMMA StepKeepsPromise ==
    ASSUME PromiseInv, [Next]_vars
    PROVE  PromiseInv'
<1>1. ASSUME UpdateProfile PROVE PromiseInv'
  BY <1>1, UpdateKeepsPromise DEF UpdateProfile, Group
<1>2. ASSUME UpdateMtu PROVE PromiseInv'
  BY <1>2, UpdateKeepsPromise DEF UpdateMtu, Group
<1>3. ASSUME UpdateConnParams PROVE PromiseInv'
  BY <1>3, UpdateKeepsPromise DEF UpdateConnParams, Group
<1>4. ASSUME SaveFails PROVE PromiseInv'
  BY <1>4 DEF SaveFails, PromiseInv, Shape, Halfway, Kept, Part, Loaded, Group
<1>5. ASSUME UNCHANGED <<config, flash, updating, left, promised>> PROVE PromiseInv'
  BY <1>5 DEF PromiseInv, Shape, Halfway, Kept, Part, Loaded, StillToSave
<1>6. ASSUME ConnParamsRefused \/ OpConnect \/ Disconnected \/ UNCHANGED vars
      PROVE  PromiseInv'
  BY <1>5, <1>6 DEF ConnParamsRefused, OpConnect, Disconnected, vars
<1> QED
  BY <1>1, <1>2, <1>3, <1>4, <1>6, SaveKeepsPromise, RebootKeepsPromise
  DEF Next, UpdateNext

LEMMA PromiseAlways == Spec => []PromiseInv
  BY PromiseInit, StepKeepsPromise, PTL DEF Spec

\* What was answered with success is in RAM and is what a boot loads
\* (ble_host_settings_update_profile, _mtu and _conn_params, ble_host_settings_init).
THEOREM AcknowledgedSurvives == Spec => []PromiseKept
<1>1. PromiseInv => PromiseKept
  <2> SUFFICES ASSUME PromiseInv, NEW g \in DOMAIN promised
               PROVE  Part(config, g) = promised[g] /\ Part(Loaded, g) = promised[g]
    BY DEF PromiseKept
  <2>1. Part(Loaded, g) = Part(config, g)
    BY DEF PromiseInv, Kept, Part, Restrict
  <2> QED
    BY <2>1 DEF PromiseInv, Kept
<1> QED
  BY <1>1, PromiseAlways, PTL

----------------------------------------------------------------------------
(***************************************************************************)
(* The connection parameters: which configurations AT+STARTCON can be      *)
(* refused with, and which parameters the link has.                        *)
(***************************************************************************)

ParamKeys == {"conn_interval_min", "conn_interval_max", "latency", "timeout"}

SameParams(c, d) == \A k \in ParamKeys : c[k] = d[k]

\* Only a boot brings parameters that the stack refuses, and what it brings is stored.
ParamsInv ==
    /\ "params" \in DOMAIN promised \/ updating = "params" => StackAccepts(config)
    /\ conn => StackAccepts(config)
    /\ ~StackAccepts(config) => SameParams(config, Loaded)

\* StackAccepts looks at the four parameters only.
LEMMA SameParamsSameVerdict ==
    ASSUME NEW c, NEW d, SameParams(c, d)
    PROVE  StackAccepts(c) <=> StackAccepts(d)
  BY DEF SameParams, ParamKeys, StackAccepts

\* An update changes the keys of its group.
LEMMA UpdateSetsGroup ==
    ASSUME PromiseInv, NEW g \in Group, NEW v, Update(g, v)
    PROVE  /\ g # "params" => SameParams(config', config)
           /\ g = "params" => SameParams(config', v)
           /\ Part(config', "params") = IF g = "params"
                                        THEN [k \in ParamKeys |-> v[k]]
                                        ELSE Part(config, "params")
<1>1. config' = [k \in Key |-> IF k \in KeySet(g) THEN v[k] ELSE config[k]]
  BY DEF Update
<1>2. ParamKeys \subseteq Key /\ ParamKeys = KeySet("params")
  BY KeysOfGroup, KeySets DEF ParamKeys, Group
<1>3. g # "params" => ParamKeys \cap KeySet(g) = {}
  BY <1>2, KeysOfGroup DEF Group
<1>4. DOMAIN config = Key /\ DOMAIN config' = Key
  BY <1>1 DEF PromiseInv, Shape
<1>5. \A k \in ParamKeys : config'[k] = IF g = "params" THEN v[k] ELSE config[k]
  BY <1>1, <1>2, <1>3
<1>6. Part(config', "params") = [k \in ParamKeys |-> config'[k]]
  BY <1>2, <1>4 DEF Part, Restrict
<1>7. Part(config, "params") = [k \in ParamKeys |-> config[k]]
  BY <1>2, <1>4 DEF Part, Restrict
<1> QED
  BY <1>5, <1>6, <1>7 DEF SameParams

LEMMA ParamsInit == Init => ParamsInv
  BY DefaultAssumption, KeySets, KeysOfGroup
  DEF Init, ParamsInv, SameParams, Loaded, ParamKeys, Group

LEMMA StepKeepsParams ==
    ASSUME PromiseInv, ParamsInv, [Next]_vars
    PROVE  ParamsInv'
<1> ParamKeys \subseteq Key /\ ParamKeys = KeySet("params") /\ "params" \in Group
  BY KeysOfGroup, KeySets DEF ParamKeys, Group
<1>1. ASSUME NEW g \in {"profile", "mtu"}, NEW v, Update(g, v) PROVE ParamsInv'
  <2>1. SameParams(config', config)
    BY <1>1, UpdateSetsGroup DEF Group
  <2>2. StackAccepts(config') <=> StackAccepts(config)
    BY <2>1, SameParamsSameVerdict
  <2>3. Loaded' = Loaded /\ conn' = conn /\ updating' = g /\ flash' = flash
    BY <1>1 DEF Update, Loaded
  <2>4. DOMAIN promised' \subseteq DOMAIN promised
    BY <1>1 DEF Update, Restrict
  <2> QED
    BY <2>1, <2>2, <2>3, <2>4 DEF ParamsInv, SameParams
<1>2. ASSUME UpdateConnParams PROVE ParamsInv'
  <2>1. PICK p \in ConnParams : StackAccepts(p) /\ Update("params", p)
    BY <1>2 DEF UpdateConnParams
  <2>2. SameParams(config', p)
    BY <2>1, UpdateSetsGroup
  <2>3. StackAccepts(config')
    BY <2>1, <2>2, SameParamsSameVerdict
  <2> QED
    BY <2>3 DEF ParamsInv
<1>3. ASSUME SaveOne PROVE ParamsInv'
  <2>1. updating \in Group /\ left \in Seq(Key) /\ left # <<>> /\ config' = config /\ conn' = conn
    BY <1>3 DEF SaveOne, Idle, PromiseInv, Shape, Halfway
  <2>2. Head(left) \in KeySet(updating)
    BY <2>1, NextKey DEF PromiseInv, Halfway
  <2>3. "params" \in DOMAIN promised' \/ updating' = "params" =>
           "params" \in DOMAIN promised \/ updating = "params"
    BY <1>3 DEF SaveOne
  <2>4. CASE StackAccepts(config)
    BY <2>1, <2>4 DEF ParamsInv
  <2>5. CASE ~StackAccepts(config)
    <3>1. updating # "params"
      BY <2>5 DEF ParamsInv
    <3>2. Head(left) \notin ParamKeys
      BY <2>1, <2>2, <3>1, KeysOfGroup
    <3>3. SameParams(Loaded', Loaded)
      BY <1>3, <3>2 DEF SaveOne, Loaded, SameParams
    <3> QED
      BY <2>1, <2>3, <2>5, <3>3 DEF ParamsInv, SameParams
  <2> QED
    BY <2>4, <2>5
<1>4. ASSUME Reboot PROVE ParamsInv'
  <2>1. config' = Loaded /\ Loaded' = Loaded /\ ~conn' /\ updating' = "none" /\ promised' = promised
    BY <1>4 DEF Reboot, Loaded
  <2>2. ASSUME "params" \in DOMAIN promised PROVE StackAccepts(Loaded)
    <3>1. SameParams(Loaded, config)
      BY <2>2 DEF PromiseInv, Kept, SameParams
    <3> QED
      BY <2>2, <3>1, SameParamsSameVerdict DEF ParamsInv
  <2> QED
    BY <2>1, <2>2 DEF ParamsInv, SameParams
<1>5. ASSUME SaveFails \/ ConnParamsRefused \/ OpConnect \/ Disconnected \/ UNCHANGED vars
      PROVE  ParamsInv'
  <2>1. config' = config /\ Loaded' = Loaded /\ promised' = promised
    BY <1>5 DEF SaveFails, ConnParamsRefused, OpConnect, Disconnected, vars, Loaded
  <2>2. updating' = "params" => updating = "params"
    BY <1>5 DEF SaveFails, ConnParamsRefused, OpConnect, Disconnected, vars
  <2>3. conn' => conn \/ StackAccepts(config)
    BY <1>5 DEF SaveFails, ConnParamsRefused, OpConnect, Disconnected, vars
  <2> QED
    BY <2>1, <2>2, <2>3 DEF ParamsInv, SameParams
<1> QED
  BY <1>1, <1>2, <1>3, <1>4, <1>5 DEF Next, UpdateNext, UpdateProfile, UpdateMtu

LEMMA ParamsAlways == Spec => [](PromiseInv /\ ParamsInv)
<1>1. PromiseInv /\ ParamsInv /\ [Next]_vars => ParamsInv'
  BY StepKeepsParams
<1> QED
  BY <1>1, PromiseAlways, ParamsInit, PTL DEF Spec

\* AT+STARTCON is refused for its parameters only after an update was cut short by a
\* failed save or a power loss (op_connect, ble_host_settings_update_conn_params).
THEOREM ConnectableAgain == Spec => []ConnectableUnlessTorn
<1>1. ParamsInv => ConnectableUnlessTorn
  BY DEF ParamsInv, ConnectableUnlessTorn
<1> QED
  BY <1>1, ParamsAlways, PTL

\* Parameters the stack refuses are never replaced: neither by a command, which needs a
\* connection (op_set_conn_params), nor by a boot, which loads them again.
THEOREM RefusalLasts == Spec => RefusedParamsStay
<1>1. ASSUME PromiseInv, ParamsInv, [Next]_vars, ~StackAccepts(config)
      PROVE  ~StackAccepts(config')
  <2>1. ~conn
    BY <1>1 DEF ParamsInv
  <2>2. SameParams(config, Loaded)
    BY <1>1 DEF ParamsInv
  <2>3. ASSUME NEW g \in {"profile", "mtu"}, NEW v, Update(g, v)
        PROVE  SameParams(config', config)
    BY <1>1, <2>3, UpdateSetsGroup DEF Group
  <2>4. SameParams(config', config)
    BY <1>1, <2>1, <2>2, <2>3
    DEF Next, UpdateNext, UpdateProfile, UpdateMtu, UpdateConnParams, ConnParamsRefused,
        SaveOne, SaveFails, Reboot, OpConnect, Disconnected, vars, SameParams
  <2> QED
    BY <1>1, <2>4, SameParamsSameVerdict
<1>2. PromiseInv /\ ParamsInv /\ [Next]_vars => [~StackAccepts(config) => ~StackAccepts(config')]_vars
  BY <1>1
<1> QED
  BY <1>2, ParamsAlways, PTL DEF Spec, RefusedParamsStay

\* The link and the configuration have the same parameters, but for commands refused
\* after the stack had obeyed them (op_set_conn_params, op_connect).
THEOREM LinkFollowsConfig == Spec => []LinkMatchesConfig
<1> ParamKeys = KeySet("params") /\ "params" \in Group
  BY KeySets DEF ParamKeys, Group
<1>1. Init => LinkMatchesConfig
  BY DEF Init, LinkMatchesConfig
<1>2. ASSUME PromiseInv, LinkMatchesConfig, [Next]_vars PROVE LinkMatchesConfig'
  <2>1. ASSUME NEW g \in {"profile", "mtu"}, NEW v, Update(g, v), link' = link
        PROVE  LinkMatchesConfig'
    <3>1. Part(config', "params") = Part(config, "params") /\ conn' = conn
      BY <1>2, <2>1, UpdateSetsGroup DEF Group, Update
    <3> QED
      BY <1>2, <2>1, <3>1 DEF LinkMatchesConfig, Part
  <2>2. ASSUME UpdateConnParams PROVE LinkMatchesConfig'
    <3>1. PICK p \in ConnParams : Update("params", p) /\ link' = p
      BY <2>2 DEF UpdateConnParams
    <3>2. p = [k \in ParamKeys |-> p[k]]
      BY ParamsAssumption
    <3>3. Part(config', "params") = p
      BY <1>2, <3>1, <3>2, UpdateSetsGroup
    <3> QED
      BY <3>1, <3>3 DEF LinkMatchesConfig, Part
  <2>3. ASSUME ConnParamsRefused PROVE LinkMatchesConfig'
    BY <2>3 DEF ConnParamsRefused, LinkMatchesConfig
  <2>4. ASSUME Reboot \/ Disconnected PROVE LinkMatchesConfig'
    BY <2>4 DEF Reboot, Disconnected, LinkMatchesConfig
  <2>5. ASSUME OpConnect PROVE LinkMatchesConfig'
    BY <2>5 DEF OpConnect, LinkMatchesConfig, Part
  <2>6. ASSUME SaveOne \/ SaveFails \/ UNCHANGED vars PROVE LinkMatchesConfig'
    <3>1. config' = config /\ conn' = conn /\ link' = link
      BY <2>6 DEF SaveOne, SaveFails, vars
    <3> QED
      BY <1>2, <3>1 DEF LinkMatchesConfig, Part
  <2> QED
    BY <1>2, <2>1, <2>2, <2>3, <2>4, <2>5, <2>6
    DEF Next, UpdateNext, UpdateProfile, UpdateMtu
<1>3. PromiseInv /\ LinkMatchesConfig /\ [Next]_vars => LinkMatchesConfig'
  BY <1>2
<1> QED
  BY <1>1, <1>3, PromiseAlways, PTL DEF Spec

----------------------------------------------------------------------------
(***************************************************************************)
(* Types: TypeOK speaks of the values in RAM and in flash; what it says of *)
(* the MTU in RAM needs the same of the MTU in flash, which a boot loads.  *)
(***************************************************************************)
TypeInv ==
    /\ TypeOK
    /\ "mtu" \in DOMAIN flash => flash["mtu"] \in 23..259

\* Each key has its group, and what a group's update supplies for it.
LEMMA SuppliedByUpdate ==
    /\ \A p \in Profiles : \A k \in KeySet("profile") : p[k] \in Supplied(k)
    /\ \A p \in ConnParams : \A k \in KeySet("params") : p[k] \in Supplied(k)
    /\ \A k \in Key : Default[k] \in Supplied(k)
    /\ \A m \in Mtus : m \in Supplied("mtu")
  BY ProfilesAssumption, ParamsAssumption DEF Supplied

LEMMA KeysAreStrings ==
    /\ "mtu" \in Key
    /\ "mtu" \notin KeySet("profile") /\ "mtu" \notin KeySet("params")
    /\ KeySet("params") \subseteq Key
    /\ KeySet("params") = ParamKeys
  BY KeySets DEF Key, Group, ParamKeys

LEMMA TypesInit == Init => TypeInv
<1> SUFFICES ASSUME Init PROVE TypeInv
  OBVIOUS
<1>1. \A k \in KeySet("params") : link[k] \in Supplied(k)
  <2>1. link = [k \in KeySet("params") |-> Default[k]]
    BY DefaultAssumption, KeysAreStrings DEF Init, Part, Restrict
  <2> QED
    BY <2>1, SuppliedByUpdate, KeysAreStrings
<1>2. DOMAIN flash = {}
  BY DEF Init
<1>3. <<>> \in Seq(Key) /\ DOMAIN promised = Group
  BY DEF Init
<1>4. DOMAIN config = Key /\ config["mtu"] \in 23..259
  BY DefaultAssumption DEF Init
<1>5. \A k \in Key : config[k] \in Supplied(k)
  BY SuppliedByUpdate DEF Init
<1> QED
  BY <1>1, <1>2, <1>3, <1>4, <1>5 DEF Init, TypeInv, TypeOK, Idle

\* The values an update gives to the keys of its group.
Supplies(g, v) ==
    /\ \A k \in KeySet(g) : v[k] \in Supplied(k)
    /\ g = "mtu" => v["mtu"] \in 23..259

LEMMA UpdateKeepsTypes ==
    ASSUME TypeInv, NEW g \in Group, NEW v, Update(g, v), Supplies(g, v),
           \A k \in KeySet("params") : link'[k] \in Supplied(k)
    PROVE  TypeInv'
<1>1. /\ config' = [k \in Key |-> IF k \in KeySet(g) THEN v[k] ELSE config[k]]
      /\ updating' = g /\ left' = KeysOf[g]
      /\ promised' = [h \in DOMAIN promised \ {g} |-> promised[h]]
      /\ flash' = flash /\ conn' = conn
  BY DEF Update, Restrict
<1>2. \A k \in Key : config'[k] \in Supplied(k)
  BY <1>1 DEF TypeInv, TypeOK, Supplies
<1>3. config'["mtu"] \in 23..259
  <2>1. g # "mtu" => "mtu" \notin KeySet(g)
    BY KeysAreStrings DEF Group
  <2>2. g = "mtu" => "mtu" \in KeySet(g)
    BY KeySets
  <2> QED
    BY <1>1, <2>1, <2>2, KeysAreStrings DEF TypeInv, TypeOK, Supplies
<1>4. left' \in Seq(Key) /\ left' # <<>> /\ updating' # "none"
  BY <1>1, KeysOfGroup DEF Group
<1> QED
  BY <1>1, <1>2, <1>3, <1>4 DEF TypeInv, TypeOK, Idle, Supplied, Group

LEMMA StepKeepsTypes ==
    ASSUME PromiseInv, TypeInv, [Next]_vars
    PROVE  TypeInv'
<1>1. ASSUME UpdateProfile PROVE TypeInv'
  <2>1. PICK p \in Profiles : Update("profile", p) /\ link' = link
    BY <1>1 DEF UpdateProfile
  <2>2. Supplies("profile", p)
    BY SuppliedByUpdate DEF Supplies
  <2>3. \A k \in KeySet("params") : link'[k] \in Supplied(k)
    BY <2>1 DEF TypeInv, TypeOK
  <2> QED
    BY <2>1, <2>2, <2>3, UpdateKeepsTypes DEF Group
<1>2. ASSUME UpdateMtu PROVE TypeInv'
  <2>1. PICK m \in Mtus : /\ m \in 23..259
                          /\ Update("mtu", [k \in {"mtu"} |-> m])
                          /\ link' = link
    BY <1>2 DEF UpdateMtu
  <2>2. Supplies("mtu", [k \in {"mtu"} |-> m])
    BY <2>1, SuppliedByUpdate, KeySets DEF Supplies
  <2>3. \A k \in KeySet("params") : link'[k] \in Supplied(k)
    BY <2>1 DEF TypeInv, TypeOK
  <2> QED
    BY <2>1, <2>2, <2>3, UpdateKeepsTypes DEF Group
<1>3. ASSUME UpdateConnParams PROVE TypeInv'
  <2>1. PICK p \in ConnParams : Update("params", p) /\ link' = p
    BY <1>3 DEF UpdateConnParams
  <2>2. Supplies("params", p)
    BY SuppliedByUpdate DEF Supplies
  <2> QED
    BY <2>1, <2>2, SuppliedByUpdate, UpdateKeepsTypes DEF Group
<1>4. ASSUME ConnParamsRefused PROVE TypeInv'
  BY <1>4, SuppliedByUpdate DEF ConnParamsRefused, TypeInv, TypeOK, Supplied, Idle
<1>5. ASSUME SaveOne PROVE TypeInv'
  <2>1. updating \in Group /\ left \in Seq(Key) /\ left # <<>>
    BY <1>5 DEF SaveOne, Idle, PromiseInv, Shape, Halfway
  <2>2. /\ flash' = [k \in DOMAIN flash \union {Head(left)} |->
                        IF k = Head(left) THEN config[k] ELSE flash[k]]
        /\ left' = Tail(left) /\ config' = config /\ conn' = conn /\ link' = link
    BY <1>5 DEF SaveOne
  <2>3. Head(left) \in Key /\ Tail(left) \in Seq(Key)
    BY <2>1
  <2>4. /\ DOMAIN flash' \subseteq Key /\ \A k \in DOMAIN flash' : flash'[k] \in Supplied(k)
        /\ "mtu" \in DOMAIN flash' => flash'["mtu"] \in 23..259
    BY <2>2, <2>3 DEF TypeInv, TypeOK
  <2>5. /\ updating' \in Group \union {"none"} /\ (updating' = "none" <=> Len(left) = 1)
        /\ DOMAIN promised' \subseteq Group
    BY <1>5, <2>1 DEF SaveOne, TypeInv, TypeOK, Group
  <2>6. left' = <<>> <=> Len(left) = 1
    BY <2>1, <2>2, NextKey, EmptySeq
  <2> QED
    BY <2>2, <2>3, <2>4, <2>5, <2>6 DEF TypeInv, TypeOK, Idle, Supplied
<1>6. ASSUME Reboot PROVE TypeInv'
  <2>1. /\ config' = Loaded /\ conn' = FALSE /\ updating' = "none" /\ left' = <<>>
        /\ UNCHANGED <<link, flash, promised>>
    BY <1>6 DEF Reboot
  <2>2. DOMAIN Loaded = Key /\ \A k \in Key : Loaded[k] \in Supplied(k)
    BY SuppliedByUpdate DEF Loaded, TypeInv, TypeOK
  <2>3. Loaded["mtu"] \in 23..259
    BY KeysAreStrings, DefaultAssumption DEF Loaded, TypeInv
  <2>4. <<>> \in Seq(Key)
    OBVIOUS
  <2>5. TypeOK'
    BY <2>1, <2>2, <2>3, <2>4 DEF TypeInv, TypeOK, Idle
  <2> QED
    BY <2>1, <2>5 DEF TypeInv
<1>7. ASSUME SaveFails PROVE TypeInv'
  BY <1>7 DEF SaveFails, TypeInv, TypeOK, Idle, Supplied
<1>8. ASSUME OpConnect PROVE TypeInv'
  <2>1. link' = [k \in KeySet("params") |-> config[k]]
    BY <1>8, KeysAreStrings DEF OpConnect, Part, Restrict, TypeInv, TypeOK
  <2>2. \A k \in KeySet("params") : link'[k] \in Supplied(k)
    BY <2>1, KeysAreStrings DEF TypeInv, TypeOK
  <2>3. conn' = TRUE /\ UNCHANGED <<config, flash, updating, left, promised>>
    BY <1>8 DEF OpConnect
  <2> QED
    BY <2>2, <2>3 DEF TypeInv, TypeOK, Idle, Supplied
<1>9. ASSUME Disconnected \/ UNCHANGED vars PROVE TypeInv'
  BY <1>9 DEF Disconnected, vars, TypeInv, TypeOK, Idle, Supplied
<1> QED
  BY <1>1, <1>2, <1>3, <1>4, <1>5, <1>6, <1>7, <1>8, <1>9 DEF Next, UpdateNext

\* The configuration holds supplied values only, and the MTU stays in its range over
\* every boot (settings_handle_set does not check it).
THEOREM TypeCorrect == Spec => []TypeOK
<1>1. PromiseInv /\ TypeInv /\ [Next]_vars => TypeInv'
  BY StepKeepsTypes
<1>2. TypeInv => TypeOK
  BY DEF TypeInv
<1> QED
  BY <1>1, <1>2, PromiseAlways, TypesInit, PTL DEF Spec

=============================================================================
