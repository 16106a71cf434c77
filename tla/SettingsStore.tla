--------------------------- MODULE SettingsStore ---------------------------
(***************************************************************************)
(* settings.c: the configuration in RAM (g_config) and its copy in flash,  *)
(* updated by AT+SETSVCUUID, AT+SETMTU and AT+CONPARAREQ.  An update       *)
(* changes RAM first and then saves its keys one by one; a save can fail,  *)
(* and power can be lost before, between and after the saves.  A boot      *)
(* takes over what flash holds key by key, without checking it.            *)
(*                                                                         *)
(* One key is saved atomically: the flash file system (NVS) keeps either   *)
(* its old or its new value.                                               *)
(***************************************************************************)
EXTENDS Naturals, Sequences, Functions

CONSTANTS
    Profiles,    \* the profiles the host sets (normalised UUIDs)
    Mtus,        \* the MTUs it sets
    ConnParams,  \* the connection parameters it requests
    Default      \* g_config as compiled in: a value for every key

Group == {"profile", "mtu", "params"}

\* The keys of a group, in the order they are saved.
KeysOf ==
    [profile |-> <<"service_uuid", "notify_uuid", "write_uuid">>,
     mtu     |-> <<"mtu">>,
     params  |-> <<"conn_interval_min", "conn_interval_max", "latency", "timeout">>]

KeySet(g) == Range(KeysOf[g])

Key == UNION {KeySet(g) : g \in Group}

\* What the Bluetooth stack requires of connection parameters before it creates a
\* connection or requests an update with them.
StackAccepts(p) ==
    /\ p.conn_interval_min >= 6
    /\ p.conn_interval_min <= p.conn_interval_max
    /\ p.conn_interval_max <= 3200
    /\ p.latency < 500
    /\ p.timeout >= 10 /\ p.timeout <= 3200
    /\ 4 * p.timeout > (1 + p.latency) * p.conn_interval_max

ConnParamsValid(p) ==
    /\ p.conn_interval_min \in 6..800
    /\ p.conn_interval_max \in 6..800
    /\ p.conn_interval_min <= p.conn_interval_max
    /\ p.timeout # 0

ASSUME DefaultAssumption ==
    /\ DOMAIN Default = Key
    /\ StackAccepts(Default)
    /\ Default.mtu \in 23..259
ASSUME ProfilesAssumption == \A p \in Profiles : DOMAIN p = KeySet("profile")
ASSUME ParamsAssumption == ConnParams \subseteq [KeySet("params") -> Nat]

VARIABLES
    config,     \* g_config
    flash,      \* the stored keys and their values
    conn,       \* current_conn # NULL
    link,       \* the parameters the firmware last gave the stack for the link
    updating,   \* the group whose update is being saved, or "none"
    left,       \* its keys still to be saved
    promised    \* history: the groups whose last update was answered with success
                \* (or that were never updated), and the values it set

vars == <<config, flash, conn, link, updating, left, promised>>

\* The part of a configuration that belongs to a group.
Part(c, g) == Restrict(c, KeySet(g))

\* settings_load_subtree over the compiled-in defaults.
Loaded == [k \in Key |-> IF k \in DOMAIN flash THEN flash[k] ELSE Default[k]]

Idle == updating = "none"

----------------------------------------------------------------------------
Init ==
    /\ config = Default
    /\ flash = <<>>
    /\ conn = FALSE
    /\ link = Part(Default, "params")
    /\ updating = "none"
    /\ left = <<>>
    /\ promised = [g \in Group |-> Part(Default, g)]

\* An update overwrites its part of g_config and turns to its first save.
Update(g, v) ==
    /\ Idle
    /\ config' = [k \in Key |-> IF k \in KeySet(g) THEN v[k] ELSE config[k]]
    /\ updating' = g
    /\ left' = KeysOf[g]
    /\ promised' = Restrict(promised, DOMAIN promised \ {g})
    /\ UNCHANGED <<flash, conn>>

UpdateProfile == \E p \in Profiles : Update("profile", p) /\ UNCHANGED link

UpdateMtu ==
    \E m \in Mtus :
        /\ m \in 23..259
        /\ Update("mtu", [k \in {"mtu"} |-> m])
        /\ UNCHANGED link

\* Slip: no connection is asked for.
UpdateConnParamsAnytime ==
    \E p \in ConnParams :
        /\ StackAccepts(p)
        /\ ConnParamsValid(p)
        /\ link' = p
        /\ Update("params", p)

\* Slip: the link is left as it is.
UpdateConnParamsOnly ==
    \E p \in ConnParams :
        /\ conn
        /\ StackAccepts(p)
        /\ ConnParamsValid(p)
        /\ Update("params", p)
        /\ UNCHANGED link

\* op_set_conn_params: only on a connection, which the stack updates first.
UpdateConnParams ==
    \E p \in ConnParams :
        /\ conn
        /\ StackAccepts(p)
        /\ ConnParamsValid(p)
        /\ link' = p
        /\ Update("params", p)

\* Parameters that the stack takes and conn_params_valid refuses: the host reads +ERR,
\* but the link has been updated.
ConnParamsRefused ==
    \E p \in ConnParams :
        /\ Idle /\ conn
        /\ StackAccepts(p)
        /\ ~ConnParamsValid(p)
        /\ link' = p
        /\ UNCHANGED <<config, flash, conn, updating, left, promised>>

\* settings_save_one stores the next key; after the last one the host reads +OK.
SaveOne ==
    /\ ~Idle
    /\ flash' = [k \in DOMAIN flash \union {Head(left)} |->
                    IF k = Head(left) THEN config[k] ELSE flash[k]]
    /\ left' = Tail(left)
    /\ IF Len(left) = 1
       THEN /\ updating' = "none"
            /\ promised' = [g \in DOMAIN promised \union {updating} |->
                               IF g = updating THEN Part(config, g) ELSE promised[g]]
       ELSE UNCHANGED <<updating, promised>>
    /\ UNCHANGED <<config, conn, link>>

\* Slip: the error of a save is not looked at.
SaveErrorIgnored ==
    /\ ~Idle
    /\ left' = Tail(left)
    /\ IF Len(left) = 1
       THEN /\ updating' = "none"
            /\ promised' = [g \in DOMAIN promised \union {updating} |->
                               IF g = updating THEN Part(config, g) ELSE promised[g]]
       ELSE UNCHANGED <<updating, promised>>
    /\ UNCHANGED <<config, conn, link, flash>>

\* settings_save_one fails: the update returns the error (+ERR) at once, and
\* g_config keeps the new values.
SaveFails ==
    /\ ~Idle
    /\ updating' = "none"
    /\ left' = <<>>
    /\ UNCHANGED <<config, flash, conn, link, promised>>

\* Power is lost, at any point, and the firmware boots.
Reboot ==
    /\ config' = Loaded
    /\ conn' = FALSE
    /\ updating' = "none"
    /\ left' = <<>>
    /\ UNCHANGED <<link, flash, promised>>

\* AT+STARTCON, and the connection it establishes; refused with -EINVAL when the
\* stack does not accept the configured parameters.
OpConnect ==
    /\ Idle /\ ~conn
    /\ StackAccepts(config)
    /\ conn' = TRUE
    /\ link' = Part(config, "params")
    /\ UNCHANGED <<config, flash, updating, left, promised>>

Disconnected ==
    /\ conn
    /\ conn' = FALSE
    /\ UNCHANGED <<config, flash, link, updating, left, promised>>

UpdateNext == UpdateProfile \/ UpdateMtu \/ UpdateConnParams \/ ConnParamsRefused

Next == UpdateNext \/ SaveOne \/ SaveFails \/ Reboot \/ OpConnect \/ Disconnected

Spec == Init /\ [][Next]_vars

----------------------------------------------------------------------------
\* Types: the values stay among those the host or the firmware supplied.
Supplied(k) ==
    {Default[k]} \union (IF k = "mtu" THEN Mtus ELSE {})
    \union {p[k] : p \in {q \in Profiles \union ConnParams : k \in DOMAIN q}}

TypeOK ==
    /\ DOMAIN config = Key /\ \A k \in Key : config[k] \in Supplied(k)
    /\ config.mtu \in 23..259
    /\ DOMAIN flash \subseteq Key /\ \A k \in DOMAIN flash : flash[k] \in Supplied(k)
    /\ conn \in BOOLEAN
    /\ \A k \in KeySet("params") : link[k] \in Supplied(k)
    /\ updating \in Group \union {"none"}
    /\ left \in Seq(Key)
    /\ Idle <=> left = <<>>
    /\ DOMAIN promised \subseteq Group

\* An update answered with success, and no update of the group begun since: RAM holds
\* it, and so does whatever a boot would load, whole, whichever updates of other
\* groups were cut short by a failed save or by a loss of power (update_profile,
\* update_mtu, update_conn_params).
PromiseKept ==
    \A g \in DOMAIN promised :
        Part(config, g) = promised[g] /\ Part(Loaded, g) = promised[g]

\* As long as no update of the connection parameters has been cut short, AT+STARTCON
\* is not refused for them.
ConnectableUnlessTorn == "params" \in DOMAIN promised => StackAccepts(config)

\* Parameters the stack refuses come only from a boot, and no command replaces them:
\* AT+CONPARAREQ asks for a connection, which AT+STARTCON no longer makes.
RefusedParamsStay == [][~StackAccepts(config) => ~StackAccepts(config')]_vars

\* The link has the parameters that are configured, and will be stored: whatever power
\* losses and failing saves left behind, they part only by a command that was refused
\* for its range after the stack had obeyed it.
LinkMatchesConfig ==
    conn => link = Part(config, "params") \/ ~ConnParamsValid(link)

=============================================================================
