------------------------------ MODULE BleLink ------------------------------
(***************************************************************************)
(* The life of the BLE link: the application state machine of main.c       *)
(* (scanning, connecting, data mode, disconnecting) and profile_manager.c  *)
(* (service and characteristic discovery, subscription, MTU exchange,      *)
(* writes with response), driven by AT commands, by the scan timer and by  *)
(* the callbacks of the Bluetooth stack.                                   *)
(*                                                                         *)
(* The stack is external.  It runs at most one procedure of each kind,     *)
(* calls back once per procedure, aborts what is outstanding when the link *)
(* is lost, and only then reports the disconnection.  It completes its     *)
(* commands to the controller in order.                                    *)
(***************************************************************************)
EXTENDS Naturals, FiniteSets

CONSTANTS
    Profiles,     \* the profiles AT+SETSVCUUID chooses from
    Mtus,         \* the values AT+SETMTU chooses from
    LinkMtus,     \* the ATT MTUs an exchange can lead to
    StopResults,  \* outcomes of bt_le_scan_stop: "ok", "error"
    None          \* no handle

ASSUME NoneAssumption == None \notin Profiles
ASSUME MtuAssumption == Mtus \subseteq 23..259 /\ LinkMtus \subseteq 23..259

VARIABLES
    app_state,
    current_conn,         \* current_conn # NULL
    pending_enter,        \* data_mode_pending_enter
    scan_timer,           \* scan_stop_work is armed
    stopping,             \* scan_stop_work_handler is inside bt_le_scan_stop
    creating,             \* op_connect is inside bt_conn_le_create
    profile,              \* the active profile of the configuration
    mtu                   \* its MTU

\* profile_manager.c; a handle is named by the profile its UUID was matched against.
VARIABLES
    pm_conn,              \* g_state.conn # NULL
    ready,
    service, notify, write,
    props,                \* write_properties: "no_rsp", "rsp" or "neither"
    payload_len,
    exchange_in_progress,
    write_in_progress

\* The Bluetooth stack.
VARIABLES
    link,                 \* "down", "initiating", "up", "lost"
    att,                  \* the ATT procedures outstanding
    att_mtu,
    exchanged             \* this connection's MTU exchange has been requested

\* History.
VARIABLES
    told,                 \* what the host was last told of the connection
    unsubscribed,         \* the stack has given the connection's subscription up
    stop_refused          \* bt_le_scan_stop has failed since the scan began

control   == <<app_state, current_conn, pending_enter>>
scan      == <<scan_timer, stopping, creating, stop_refused>>
config    == <<profile, mtu>>
handles   == <<pm_conn, ready, service, notify, write, props>>
transfers == <<payload_len, exchange_in_progress, write_in_progress>>
stack     == <<link, att, att_mtu, exchanged>>
history   == <<told, unsubscribed>>
vars == <<control, scan, config, handles, transfers, stack, history>>

----------------------------------------------------------------------------
\* Helpers.

ConnState(conn) == IF conn THEN "CONTROL_READY" ELSE "IDLE"

\* The UART callback is free and hands what it reads to the AT parser.
AtCommand == ~creating /\ app_state # "DATA_MODE"

\* Slip: only the preferred MTU counts.
PayloadPreferred(conn, attMtu, preferred) == preferred - 3

\* update_payload_len; the stack knows no MTU (0) of a connection that has ended.
PayloadLen(conn, attMtu, preferred) ==
    LET m == IF conn THEN attMtu ELSE 23
        n == IF m <= preferred THEN m ELSE preferred
    IN  IF n > 3 THEN n - 3 ELSE 20

\* profile_error: a failed profile leaves a connection under AT control.
ProfileError ==
    /\ app_state' = IF current_conn /\ app_state # "DATA_MODE"
                    THEN "CONTROL_READY" ELSE app_state
    /\ told' = IF told = "connected" THEN "failed" ELSE told
    /\ UNCHANGED <<current_conn, pending_enter, unsubscribed>>

\* profile_ready.
ProfileReady ==
    /\ app_state' = IF app_state # "DATA_MODE" /\ ~pending_enter
                    THEN "CONTROL_READY" ELSE app_state
    /\ told' = "ready"
    /\ UNCHANGED <<current_conn, pending_enter, unsubscribed>>

\* profile_manager_can_enter_data_mode
CanEnterDataMode == ready /\ write # None /\ props = "no_rsp"

Completes(p) == p \in att /\ UNCHANGED <<link, exchanged>>

----------------------------------------------------------------------------
Init ==
    /\ app_state = "IDLE"
    /\ current_conn = FALSE /\ pending_enter = FALSE
    /\ scan_timer = FALSE /\ stopping = FALSE /\ creating = FALSE
    /\ stop_refused = FALSE
    /\ profile \in Profiles /\ mtu \in Mtus
    /\ pm_conn = FALSE /\ ready = FALSE
    /\ service = None /\ notify = None /\ write = None /\ props = "neither"
    /\ payload_len = PayloadLen(FALSE, 0, mtu)
    /\ exchange_in_progress = FALSE /\ write_in_progress = FALSE
    /\ link = "down" /\ att = {} /\ att_mtu = 0 /\ exchanged = FALSE
    /\ told = "none" /\ unsubscribed = FALSE

----------------------------------------------------------------------------
\* Scanning.

\* Slip: the timer is not armed.
OpStartScanNoTimer ==
    /\ AtCommand
    /\ ~current_conn
    /\ app_state \notin {"CONNECTING", "DISCONNECTING", "SCANNING"}
    /\ app_state' = "SCANNING"
    /\ stop_refused' = FALSE
    /\ UNCHANGED <<current_conn, pending_enter, scan_timer, stopping, creating, config, handles, transfers, stack, history>>

\* op_start_scan; while a scan runs the command changes nothing.
OpStartScan ==
    /\ AtCommand
    /\ ~current_conn
    /\ app_state \notin {"CONNECTING", "DISCONNECTING", "SCANNING"}
    /\ app_state' = "SCANNING"
    /\ scan_timer' = TRUE
    /\ stop_refused' = FALSE
    /\ UNCHANGED <<current_conn, pending_enter, stopping, creating, config, handles, transfers, stack, history>>

\* scan_stop_work_handler, up to bt_le_scan_stop.
ScanTimeout ==
    /\ scan_timer /\ ~stopping
    /\ scan_timer' = FALSE
    /\ stopping' = (app_state = "SCANNING")
    /\ UNCHANGED <<control, creating, stop_refused, config, handles, transfers, stack, history>>

\* bt_le_scan_stop returns to it.
ScanStopReturns ==
    /\ stopping
    /\ stopping' = FALSE
    /\ \/ "ok" \in StopResults /\ app_state' = ConnState(current_conn) /\ UNCHANGED stop_refused
       \/ "error" \in StopResults /\ app_state' = app_state /\ stop_refused' = TRUE
    /\ UNCHANGED <<current_conn, pending_enter, scan_timer, creating, config, handles, transfers, stack, history>>

----------------------------------------------------------------------------
\* Connecting.

\* op_connect, up to bt_conn_le_create; a running scan is stopped first.
OpConnect ==
    /\ AtCommand
    /\ ~current_conn
    /\ app_state \notin {"CONNECTING", "DISCONNECTING"}
    /\ IF app_state = "SCANNING"
       THEN /\ scan_timer' = FALSE
            /\ \/ ("ok" \in StopResults \/ stopping) /\ app_state' = "IDLE" /\ creating' = TRUE
                  /\ UNCHANGED stop_refused
               \/ "error" \in StopResults /\ UNCHANGED <<app_state, creating>> /\ stop_refused' = TRUE
       ELSE /\ creating' = TRUE
            /\ UNCHANGED <<app_state, scan_timer, stop_refused>>
    /\ UNCHANGED <<current_conn, pending_enter, stopping, config, handles, transfers, stack, history>>

\* bt_conn_le_create returns.  Its command was sent after that of a scan stop under
\* way, so it returns after it.
OpConnectReturns ==
    /\ creating /\ ~stopping
    /\ creating' = FALSE
    /\ \/ /\ current_conn' = TRUE
          /\ app_state' = "CONNECTING"
          /\ link' = "initiating"
       \/ UNCHANGED <<current_conn, app_state, link>>
    /\ UNCHANGED <<pending_enter, scan_timer, stopping, stop_refused, config, handles, transfers, att, att_mtu, exchanged, history>>

\* Slip: the reference is kept.
ConnectFailsLeaks ==
    /\ link = "initiating"
    /\ link' = "down"
    /\ app_state' = "IDLE"
    /\ UNCHANGED <<current_conn, pending_enter, scan, config, handles, transfers, att, att_mtu, exchanged, history>>

\* The connected callback with an error: the attempt failed or was cancelled.
ConnectFails ==
    /\ link = "initiating"
    /\ link' = "down"
    /\ current_conn' = FALSE
    /\ app_state' = "IDLE"
    /\ UNCHANGED <<pending_enter, scan, config, handles, transfers, att, att_mtu, exchanged, history>>

\* Slip: ready survives.
ResetKeepsReady(conn) ==
    /\ pm_conn' = conn
    /\ ready' = ready
    /\ service' = None /\ notify' = None /\ write' = None
    /\ props' = "neither"

\* profile_manager_reset and profile_manager_start for a new connection.
ResetHandles(conn) ==
    /\ pm_conn' = conn
    /\ ready' = FALSE
    /\ service' = None /\ notify' = None /\ write' = None
    /\ props' = "neither"

\* The connected callback: discovery starts, and with it the MTU exchange; without
\* discovery there is an error line and nothing more.
Connected ==
    /\ link = "initiating"
    /\ link' = "up"
    /\ att_mtu' = 23
    /\ ResetHandles(TRUE)
    /\ payload_len' = PayloadLen(TRUE, 23, mtu)
    /\ write_in_progress' = FALSE
    /\ \/ /\ app_state' = "CONNECTING"
          /\ told' = "connected"
          /\ exchange_in_progress' \in BOOLEAN
          /\ att' = {"services"} \union (IF exchange_in_progress' THEN {"exchange"} ELSE {})
       \/ /\ app_state' = "CONTROL_READY"
          /\ told' = "failed"
          /\ exchange_in_progress' = FALSE
          /\ att' = {}
    /\ unsubscribed' = FALSE
    /\ exchanged' = exchange_in_progress'
    /\ UNCHANGED <<current_conn, pending_enter, scan, config>>

----------------------------------------------------------------------------
\* Discovery.  The peripheral's services and characteristics are reported one by one
\* and compared with the profile that is active when the report comes.

\* service_discover_cb with an attribute: the last match wins.
ServiceFound ==
    /\ "services" \in att /\ link = "up"
    /\ service' = profile
    /\ UNCHANGED <<control, scan, config, pm_conn, ready, notify, write, props, transfers, stack, history>>

\* service_discover_cb without one: the end of the discovery, an error or the loss of
\* the link, which it does not tell apart.
ServicesDone ==
    /\ Completes("services")
    /\ \/ /\ service # None /\ link = "up"
          /\ att' = (att \ {"services"}) \union {"characteristics"}
          /\ UNCHANGED <<control, history>>
       \/ /\ att' = att \ {"services"}
          /\ ProfileError
    /\ UNCHANGED <<scan, config, handles, transfers, att_mtu>>

\* characteristic_discover_cb with an attribute: the first match wins.
CharacteristicFound ==
    /\ "characteristics" \in att /\ link = "up"
    /\ \/ /\ notify = None /\ notify' = profile
          /\ UNCHANGED <<write, props>>
       \/ /\ write = None /\ write' = profile
          /\ props' \in {"no_rsp", "rsp", "neither"}
          /\ UNCHANGED notify
    /\ UNCHANGED <<control, scan, config, pm_conn, ready, service, transfers, stack, history>>

\* Slip: nothing is reported when the subscription cannot be requested.
CharacteristicsDoneSilent ==
    /\ Completes("characteristics")
    /\ att' \in {att \ {"characteristics"}, (att \ {"characteristics"}) \union {"ccc"}}
    /\ UNCHANGED <<control, history, scan, config, handles, transfers, att_mtu>>

\* characteristic_discover_cb without one.  bt_gatt_subscribe can fail; otherwise it
\* looks for the CCC descriptor first (BT_GATT_AUTO_DISCOVER_CCC_HANDLE).
CharacteristicsDone ==
    /\ Completes("characteristics")
    /\ \/ /\ notify # None /\ write # None /\ link = "up"
          /\ att' = (att \ {"characteristics"}) \union {"ccc"}
          /\ UNCHANGED <<control, history>>
       \/ /\ att' = att \ {"characteristics"}
          /\ ProfileError
    /\ UNCHANGED <<scan, config, handles, transfers, att_mtu>>

\* The stack has found the descriptor and asks for it to be written.
CccFound ==
    /\ "ccc" \in att /\ link = "up"
    /\ att' = (att \ {"ccc"}) \union {"subscribe"}
    /\ UNCHANGED <<control, scan, config, handles, transfers, link, att_mtu, exchanged, history>>

\* notify_handler without data, and no call of subscribe_handler: the peripheral has no
\* such descriptor, its discovery failed or was aborted, or the write to it could not be
\* requested.  The host is told nothing.
CccMissing ==
    /\ Completes("ccc")
    /\ att' = att \ {"ccc"}
    /\ ready' = FALSE
    /\ unsubscribed' = TRUE
    /\ UNCHANGED <<control, scan, config, pm_conn, service, notify, write, props, transfers, att_mtu, told>>

\* Slip: a refused subscription is not reported.
SubscribeDoneSilent ==
    /\ Completes("subscribe")
    /\ att' = att \ {"subscribe"}
    /\ \/ link = "up" /\ ready' = TRUE /\ ProfileReady
       \/ ready' = FALSE /\ UNCHANGED <<control, history>>
    /\ UNCHANGED <<scan, config, pm_conn, service, notify, write, props, transfers, att_mtu>>

\* subscribe_handler: the write to the descriptor was answered, or aborted.
SubscribeDone ==
    /\ Completes("subscribe")
    /\ att' = att \ {"subscribe"}
    /\ \/ link = "up" /\ ready' = TRUE /\ ProfileReady
       \/ ready' = FALSE /\ ProfileError
    /\ UNCHANGED <<scan, config, pm_conn, service, notify, write, props, transfers, att_mtu>>

\* notify_handler without data: the stack drops the subscription of a lost link.
SubscriptionDropped ==
    /\ link = "lost" /\ ready
    /\ ready' = FALSE
    /\ UNCHANGED <<control, scan, config, pm_conn, service, notify, write, props, transfers, stack, history>>

----------------------------------------------------------------------------
\* The ATT MTU.

\* profile_manager_request_mtu from AT+CONMTUREQ; the stack exchanges once.
OpRequestMtu ==
    /\ AtCommand
    /\ pm_conn /\ ~exchange_in_progress
    /\ \/ /\ exchanged /\ link = "up"
          /\ payload_len' = PayloadLen(TRUE, att_mtu, mtu)
          /\ UNCHANGED <<exchange_in_progress, att, exchanged>>
       \/ /\ ~exchanged /\ link = "up"
          /\ exchange_in_progress' = TRUE
          /\ exchanged' = TRUE
          /\ att' = att \union {"exchange"}
          /\ UNCHANGED payload_len
    /\ UNCHANGED <<control, scan, config, handles, write_in_progress, link, att_mtu, history>>

\* Slip: the flag is cleared only after a successful exchange.
ExchangeDoneOnSuccess ==
    /\ Completes("exchange")
    /\ att' = att \ {"exchange"}
    /\ \/ /\ link = "up"
          /\ exchange_in_progress' = FALSE
          /\ \E m \in LinkMtus : m >= att_mtu /\ att_mtu' = m
          /\ payload_len' = PayloadLen(pm_conn, att_mtu', mtu)
       \/ UNCHANGED <<exchange_in_progress, att_mtu, payload_len>>
    /\ UNCHANGED <<control, scan, config, handles, write_in_progress, history>>

\* exchange_handler.
ExchangeDone ==
    /\ Completes("exchange")
    /\ att' = att \ {"exchange"}
    /\ exchange_in_progress' = FALSE
    /\ \/ /\ link = "up"
          /\ \E m \in LinkMtus : m >= att_mtu /\ att_mtu' = m
          /\ payload_len' = PayloadLen(pm_conn, att_mtu', mtu)
       \/ UNCHANGED <<att_mtu, payload_len>>
    /\ UNCHANGED <<control, scan, config, handles, write_in_progress, history>>

\* The peripheral's own exchange raises the MTU; no callback is registered for it.
PeerExchangesMtu ==
    /\ link = "up"
    /\ \E m \in LinkMtus : m > att_mtu /\ att_mtu' = m
    /\ UNCHANGED <<control, scan, config, handles, transfers, link, att, exchanged, history>>

----------------------------------------------------------------------------
\* Writes with response: profile_manager_send when write without response is not
\* offered.  AT+SEND is the only caller: data mode is not entered on such a profile.
OpSend ==
    /\ AtCommand
    /\ pm_conn /\ ready /\ write # None
    /\ props = "rsp" /\ ~write_in_progress /\ link = "up"
    /\ write_in_progress' = TRUE
    /\ att' = att \union {"write"}
    /\ UNCHANGED <<control, scan, config, handles, payload_len, exchange_in_progress, link, att_mtu, exchanged, history>>

\* write_handler.
WriteDone ==
    /\ Completes("write")
    /\ att' = att \ {"write"}
    /\ write_in_progress' = FALSE
    /\ \/ link = "up" /\ UNCHANGED <<control, history>>
       \/ ProfileError
    /\ UNCHANGED <<scan, config, handles, payload_len, exchange_in_progress, att_mtu>>

----------------------------------------------------------------------------
\* Configuration commands; they are accepted at any time.  If a save fails the
\* configuration has changed and profile_manager_set_config is not called.

OpSetProfile ==
    /\ AtCommand
    /\ \E p \in Profiles \ {profile} : profile' = p
    /\ payload_len' \in {payload_len, PayloadLen(pm_conn, att_mtu, mtu)}
    /\ UNCHANGED <<control, scan, mtu, handles, exchange_in_progress, write_in_progress, stack, history>>

OpSetMtu ==
    /\ AtCommand
    /\ \E m \in Mtus : mtu' = m
    /\ payload_len' \in {payload_len, PayloadLen(pm_conn, att_mtu, mtu')}
    /\ UNCHANGED <<control, scan, profile, handles, exchange_in_progress, write_in_progress, stack, history>>

----------------------------------------------------------------------------
\* Data mode.

\* op_enter_data_mode.
OpEnterDataMode ==
    /\ AtCommand
    /\ current_conn /\ ~pending_enter
    /\ CanEnterDataMode
    /\ pending_enter' = TRUE
    /\ UNCHANGED <<app_state, current_conn, scan, config, handles, transfers, stack, history>>

\* activate_pending_data_mode_if_ready, once the answer has been transmitted.
Activate ==
    /\ AtCommand
    /\ pending_enter /\ current_conn
    /\ pending_enter' = FALSE
    /\ app_state' = "DATA_MODE"
    /\ UNCHANGED <<current_conn, scan, config, handles, transfers, stack, history>>

\* exit_data_mode.
ExitDataMode ==
    /\ app_state = "DATA_MODE"
    /\ app_state' = ConnState(current_conn)
    /\ pending_enter' = FALSE
    /\ UNCHANGED <<current_conn, scan, config, handles, transfers, stack, history>>

----------------------------------------------------------------------------
\* Disconnecting.

\* op_disconnect: the state changes whatever bt_conn_disconnect returns; a connection
\* attempt is cancelled, unless it has succeeded meanwhile.
OpDisconnect ==
    /\ AtCommand
    /\ current_conn
    /\ app_state' = "DISCONNECTING"
    /\ UNCHANGED <<current_conn, pending_enter, scan, config, handles, transfers, stack, history>>

\* The link is lost, closed by the peripheral, or closed as asked.
LinkLost ==
    /\ link = "up"
    /\ link' = "lost"
    /\ att_mtu' = 0
    /\ UNCHANGED <<control, scan, config, handles, transfers, att, exchanged, history>>

\* Slip: data_mode_pending_enter survives.
DisconnectedKeepsPending ==
    /\ link = "lost" /\ att = {}
    /\ link' = "down" /\ exchanged' = FALSE
    /\ ResetHandles(FALSE)
    /\ payload_len' = PayloadLen(TRUE, att_mtu, mtu)
    /\ exchange_in_progress' = FALSE /\ write_in_progress' = FALSE
    /\ current_conn' = FALSE
    /\ app_state' = "IDLE"
    /\ told' = "none" /\ UNCHANGED unsubscribed
    /\ UNCHANGED <<pending_enter, scan, config, att, att_mtu>>

\* The disconnected callback, after the stack has aborted what was outstanding.
Disconnected ==
    /\ link = "lost" /\ att = {}
    /\ link' = "down" /\ exchanged' = FALSE
    /\ ResetHandles(FALSE)
    /\ payload_len' = PayloadLen(TRUE, att_mtu, mtu)
    /\ exchange_in_progress' = FALSE /\ write_in_progress' = FALSE
    /\ current_conn' = FALSE
    /\ pending_enter' = FALSE
    /\ app_state' = "IDLE"
    /\ told' = "none" /\ UNCHANGED unsubscribed
    /\ UNCHANGED <<scan, config, att, att_mtu>>

----------------------------------------------------------------------------
ScanNext       == OpStartScan \/ ScanTimeout \/ ScanStopReturns
ConnectNext    == OpConnect \/ OpConnectReturns \/ ConnectFails \/ Connected
DiscoveryNext  == ServiceFound \/ ServicesDone \/ CharacteristicFound \/ CharacteristicsDone
                  \/ CccFound \/ CccMissing \/ SubscribeDone \/ SubscriptionDropped
TransferNext   == OpRequestMtu \/ ExchangeDone \/ PeerExchangesMtu \/ OpSend \/ WriteDone
ConfigNext     == OpSetProfile \/ OpSetMtu
ModeNext       == OpEnterDataMode \/ Activate \/ ExitDataMode
DisconnectNext == OpDisconnect \/ LinkLost \/ Disconnected

Next == ScanNext \/ ConnectNext \/ DiscoveryNext \/ TransferNext \/ ConfigNext \/ ModeNext
        \/ DisconnectNext

Spec == Init /\ [][Next]_vars

\* The scan timer expires, the stack's calls return and its procedures end.  The host,
\* the peripheral and the controller's connection attempts owe nothing.
Fairness ==
    /\ WF_vars(ScanTimeout) /\ WF_vars(ScanStopReturns) /\ WF_vars(OpConnectReturns)
    /\ WF_vars(ServicesDone) /\ WF_vars(CharacteristicsDone)
    /\ WF_vars(CccFound \/ CccMissing) /\ WF_vars(SubscribeDone)

FairSpec == Spec /\ Fairness

----------------------------------------------------------------------------
Handle == Profiles \union {None}

\* The steps from the connection to a profile that is ready.
Discovery == {"services", "characteristics", "ccc", "subscribe"}

\* Types and ranges.
TypeOK ==
    /\ app_state \in {"IDLE", "SCANNING", "CONNECTING", "CONTROL_READY", "DATA_MODE",
                      "DISCONNECTING"}
    /\ current_conn \in BOOLEAN /\ pending_enter \in BOOLEAN
    /\ scan_timer \in BOOLEAN /\ stopping \in BOOLEAN /\ creating \in BOOLEAN
    /\ stop_refused \in BOOLEAN
    /\ profile \in Profiles /\ mtu \in Mtus
    /\ pm_conn \in BOOLEAN /\ ready \in BOOLEAN
    /\ service \in Handle /\ notify \in Handle /\ write \in Handle
    /\ props \in {"no_rsp", "rsp", "neither"}
    /\ payload_len \in 20..256
    /\ exchange_in_progress \in BOOLEAN /\ write_in_progress \in BOOLEAN
    /\ link \in {"down", "initiating", "up", "lost"}
    /\ att \subseteq Discovery \union {"exchange", "write"}
    /\ att_mtu \in {0, 23} \union LinkMtus
    /\ exchanged \in BOOLEAN
    /\ told \in {"none", "connected", "failed", "ready"} /\ unsubscribed \in BOOLEAN

\* The application state and the connection object agree at every point, although
\* commands, the scan timer, profile callbacks and link callbacks all set the state:
\* without a connection the program is idle or scanning, with one it is neither.
StateMatchesConn == (app_state \in {"IDLE", "SCANNING"}) <=> ~current_conn

\* The reference to the connection is held exactly as long as the stack has one: the
\* only connection object (CONFIG_BT_MAX_CONN=1) is neither leaked nor given up early.
ConnMatchesLink == current_conn <=> link # "down"

\* Application state, reference and stack agree on whether there is a connection.
ConnectionAgrees == StateMatchesConn /\ ConnMatchesLink

\* The profile is reported ready only on a connection whose handles this connection's
\* discovery has all found, with no step of it under way (subscribe_handler against
\* profile_manager_reset and the aborts of a lost link).
ReadyMeansResolved ==
    ready => /\ pm_conn /\ link \in {"up", "lost"}
             /\ None \notin {service, notify, write}
             /\ att \cap Discovery = {}

\* A flag that makes AT+CONMTUREQ or AT+SEND fail as busy is set exactly while the stack
\* has the procedure outstanding: none stays set over a failure or a lost link.
FlagsMatchStack ==
    /\ exchange_in_progress <=> "exchange" \in att
    /\ write_in_progress <=> "write" \in att

\* A chunk of payload_len bytes and its ATT header fit the link's MTU, whatever
\* exchanges, AT+SETMTU commands and failed saves came before.
PayloadFits == link = "up" => payload_len + 3 <= att_mtu

\* While the host waits for the outcome of +IND=BLMC, a callback that will bring it is
\* outstanding, or the stack has given the subscription up: this, which only
\* notify_handler hears of, is the one way for the discovery to end in silence.
SilenceIsUnsubscribed ==
    told = "connected" => att \cap Discovery # {} \/ unsubscribed

\* Every +IND=BLMC is followed by +IND=BLMN, an error line or +IND=BLMD, unless the stack
\* gives the subscription up: of that the host is not told.
SessionResolves == told = "connected" ~> (told # "connected" \/ unsubscribed)

\* A scan ends by its timer, if the stack does not refuse to stop it.
ScanEnds == app_state = "SCANNING" ~> (app_state # "SCANNING" \/ stop_refused)

\* The events the host sees keep the order of a LinkSession, data mode included.
SessionPhase == IF app_state = "DATA_MODE" THEN "data" ELSE told

Session == INSTANCE LinkSession WITH phase <- SessionPhase

ImplementsLinkSession == Session!Spec

=============================================================================
