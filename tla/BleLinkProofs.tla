--------------------------- MODULE BleLinkProofs ---------------------------
(***************************************************************************)
(* The safety of the BLE link, for every set of profiles and MTUs and      *)
(* whether or not the stack can refuse to stop a scan.                     *)
(*                                                                         *)
(* LinkInv is the inductive invariant.  To the checked properties it adds  *)
(*   Owner      who may hold the connection while commands and the stack   *)
(*              are at work: the profile manager has it exactly while the  *)
(*              link stands, a create under way means there is none        *)
(*   Progress   the discovery has one step outstanding at a time, and what *)
(*              the steps before it found                                  *)
(*   Mtu        the link's MTU while it is up                              *)
(*   Told       what the host was told, against profile and data mode      *)
(* and it has TypeOK in three parts (Flags, Names, Sizes).  One lemma for  *)
(* each group of Next shows that its actions keep LinkInv; SessionStep     *)
(* shows that every step is one of LinkSession.                            *)
(***************************************************************************)
EXTENDS BleLink, TLAPS

Owner ==
    /\ creating => ~current_conn
    /\ pm_conn <=> link \in {"up", "lost"}
    /\ att # {} => link \in {"up", "lost"}

Progress ==
    /\ \A s, t \in Discovery : s \in att /\ t \in att => s = t
    /\ "characteristics" \in att => service # None
    /\ "ccc" \in att \/ "subscribe" \in att => None \notin {service, notify, write}
    /\ ready => link \in {"up", "lost"} /\ None \notin {service, notify, write}
    /\ \A s \in Discovery : s \in att => ~ready

Mtu == link = "up" => att_mtu \in 23..259 /\ payload_len + 3 <= att_mtu

Told ==
    /\ told = "none" <=> link \in {"down", "initiating"}
    /\ ready \/ "write" \in att => told = "ready"
    /\ \A s \in Discovery : s \in att => told = "connected"
    /\ pending_enter \/ app_state = "DATA_MODE" => told = "ready"
    /\ pending_enter => app_state # "DATA_MODE"
    /\ SilenceIsUnsubscribed

\* TypeOK in three parts: Booleans, names and numbers.
Flags ==
    /\ current_conn \in BOOLEAN /\ pending_enter \in BOOLEAN
    /\ scan_timer \in BOOLEAN /\ stopping \in BOOLEAN /\ creating \in BOOLEAN
    /\ stop_refused \in BOOLEAN
    /\ pm_conn \in BOOLEAN /\ ready \in BOOLEAN
    /\ exchange_in_progress \in BOOLEAN /\ write_in_progress \in BOOLEAN
    /\ exchanged \in BOOLEAN /\ unsubscribed \in BOOLEAN

Names ==
    /\ app_state \in {"IDLE", "SCANNING", "CONNECTING", "CONTROL_READY", "DATA_MODE",
                      "DISCONNECTING"}
    /\ profile \in Profiles
    /\ service \in Handle /\ notify \in Handle /\ write \in Handle
    /\ props \in {"no_rsp", "rsp", "neither"}
    /\ link \in {"down", "initiating", "up", "lost"}
    /\ att \subseteq Discovery \union {"exchange", "write"}
    /\ told \in {"none", "connected", "failed", "ready"}

Sizes ==
    /\ mtu \in Mtus
    /\ payload_len \in 20..256
    /\ att_mtu \in {0, 23} \union LinkMtus

LinkInv ==
    /\ Flags /\ Names /\ Sizes
    /\ StateMatchesConn /\ ConnMatchesLink /\ FlagsMatchStack
    /\ Owner /\ Progress /\ Mtu /\ Told

----------------------------------------------------------------------------
\* update_payload_len keeps a chunk and its ATT header within the link's MTU.
LEMMA PayloadLenFits ==
    ASSUME NEW conn, NEW a \in {0} \union 23..259, NEW p \in 23..259
    PROVE  /\ PayloadLen(conn, a, p) \in 20..256
           /\ a # 0 => PayloadLen(conn, a, p) + 3 <= a
  BY DEF PayloadLen

\* The same for the values the constants allow.
LEMMA ConfiguredPayloadFits ==
    ASSUME NEW conn, NEW a \in {0, 23} \union LinkMtus, NEW p \in Mtus
    PROVE  /\ PayloadLen(conn, a, p) \in 20..256
           /\ a # 0 => a \in 23..259 /\ PayloadLen(conn, a, p) + 3 <= a
<1>1. a \in {0} \union 23..259 /\ p \in 23..259
  BY MtuAssumption
<1> QED
  BY <1>1, PayloadLenFits

\* What a change of lengths must come to.
LEMMA SizesKept ==
    ASSUME LinkInv, NEW conn,
           mtu' \in Mtus, att_mtu' \in {0, 23} \union LinkMtus,
           link' = "up" => att_mtu' # 0,
           \/ payload_len' = PayloadLen(conn, att_mtu', mtu')
           \/ payload_len' = payload_len /\ (link' = "up" => link = "up" /\ att_mtu' >= att_mtu)
    PROVE  Sizes' /\ Mtu'
<1>1. CASE payload_len' = PayloadLen(conn, att_mtu', mtu')
  <2>1. /\ PayloadLen(conn, att_mtu', mtu') \in 20..256
        /\ att_mtu' # 0 => att_mtu' \in 23..259
                          /\ PayloadLen(conn, att_mtu', mtu') + 3 <= att_mtu'
    BY ConfiguredPayloadFits
  <2> QED
    BY <1>1, <2>1 DEF Sizes, Mtu
<1>2. CASE payload_len' = payload_len /\ (link' = "up" => link = "up" /\ att_mtu' >= att_mtu)
  <2>1. att_mtu' # 0 => att_mtu' \in 23..259
    BY MtuAssumption
  <2> QED
    BY <1>2, <2>1 DEF LinkInv, Sizes, Mtu
<1> QED
  BY <1>1, <1>2

\* Scanning changes neither connection nor profile.
LEMMA ScanKeeps ==
    ASSUME LinkInv, ScanNext
    PROVE  LinkInv'
<1>1. CASE OpStartScan
  <2>1. Flags'
    BY <1>1 DEF LinkInv, Flags, OpStartScan, AtCommand, config, handles, transfers, stack,
        history
  <2>2. Names'
    BY <1>1 DEF LinkInv, Names, Discovery, Handle, OpStartScan, AtCommand, config, handles,
        transfers, stack, history
  <2>3. Sizes' /\ Mtu'
    BY <1>1 DEF LinkInv, Sizes, Mtu, OpStartScan, config, handles, transfers, stack, history
  <2>4. StateMatchesConn' /\ ConnMatchesLink' /\ FlagsMatchStack' /\ Owner' /\ Progress' /\ Told'
    BY <1>1, NoneAssumption DEF LinkInv, Flags, Names, StateMatchesConn, ConnMatchesLink,
        FlagsMatchStack, Owner, Progress, Told, SilenceIsUnsubscribed, Discovery, Handle,
        OpStartScan, AtCommand, config, handles, transfers, stack, history
  <2> QED
    BY <2>1, <2>2, <2>3, <2>4 DEF LinkInv
<1>2. CASE ScanTimeout
  <2>1. Flags'
    BY <1>2 DEF LinkInv, Flags, ScanTimeout, control, config, handles, transfers, stack,
        history
  <2>2. Names'
    BY <1>2 DEF LinkInv, Names, Discovery, Handle, ScanTimeout, control, config, handles,
        transfers, stack, history
  <2>3. Sizes' /\ Mtu'
    BY <1>2 DEF LinkInv, Sizes, Mtu, ScanTimeout, control, config, handles, transfers,
        stack, history
  <2>4. StateMatchesConn' /\ ConnMatchesLink' /\ FlagsMatchStack' /\ Owner' /\ Progress' /\ Told'
    BY <1>2, NoneAssumption DEF LinkInv, Flags, Names, StateMatchesConn, ConnMatchesLink,
        FlagsMatchStack, Owner, Progress, Told, SilenceIsUnsubscribed, Discovery, Handle,
        ScanTimeout, control, config, handles, transfers, stack, history
  <2> QED
    BY <2>1, <2>2, <2>3, <2>4 DEF LinkInv
<1>3. CASE ScanStopReturns
  <2>1. Flags'
    BY <1>3 DEF LinkInv, Flags, ScanStopReturns, ConnState, config, handles, transfers,
        stack, history
  <2>2. Names'
    BY <1>3 DEF LinkInv, Names, Discovery, Handle, ScanStopReturns, ConnState, config,
        handles, transfers, stack, history
  <2>3. Sizes' /\ Mtu'
    BY <1>3 DEF LinkInv, Sizes, Mtu, ScanStopReturns, config, handles, transfers, stack,
        history
  <2>4. StateMatchesConn' /\ ConnMatchesLink' /\ FlagsMatchStack' /\ Owner' /\ Progress' /\ Told'
    BY <1>3, NoneAssumption DEF LinkInv, Flags, Names, StateMatchesConn, ConnMatchesLink,
        FlagsMatchStack, Owner, Progress, Told, SilenceIsUnsubscribed, Discovery, Handle,
        ScanStopReturns, ConnState, config, handles, transfers, stack, history
  <2> QED
    BY <2>1, <2>2, <2>3, <2>4 DEF LinkInv
<1> QED
  BY <1>1, <1>2, <1>3 DEF ScanNext

\* The connection comes into being with its reference, and the profile starts anew.
LEMMA ConnectKeeps ==
    ASSUME LinkInv, ConnectNext
    PROVE  LinkInv'
<1>1. CASE OpConnect
  <2>1. Flags'
    BY <1>1 DEF LinkInv, Flags, OpConnect, AtCommand, config, handles, transfers, stack,
        history
  <2>2. Names'
    BY <1>1 DEF LinkInv, Names, Discovery, Handle, OpConnect, AtCommand, config, handles,
        transfers, stack, history
  <2>3. Sizes' /\ Mtu'
    BY <1>1 DEF LinkInv, Sizes, Mtu, OpConnect, config, handles, transfers, stack, history
  <2>4. StateMatchesConn' /\ ConnMatchesLink' /\ FlagsMatchStack' /\ Owner' /\ Progress' /\ Told'
    BY <1>1, NoneAssumption DEF LinkInv, Flags, Names, StateMatchesConn, ConnMatchesLink,
        FlagsMatchStack, Owner, Progress, Told, SilenceIsUnsubscribed, Discovery, Handle,
        OpConnect, AtCommand, config, handles, transfers, stack, history
  <2> QED
    BY <2>1, <2>2, <2>3, <2>4 DEF LinkInv
<1>2. CASE OpConnectReturns
  <2>1. Flags'
    BY <1>2 DEF LinkInv, Flags, OpConnectReturns, config, handles, transfers, history
  <2>2. Names'
    BY <1>2 DEF LinkInv, Names, Discovery, Handle, OpConnectReturns, config, handles,
        transfers, history
  <2>3. Sizes' /\ Mtu'
    BY <1>2 DEF LinkInv, Sizes, Mtu, OpConnectReturns, config, handles, transfers, history
  <2>4. StateMatchesConn' /\ ConnMatchesLink' /\ FlagsMatchStack' /\ Owner' /\ Progress' /\ Told'
    BY <1>2, NoneAssumption DEF LinkInv, Flags, Names, StateMatchesConn, ConnMatchesLink,
        FlagsMatchStack, Owner, Progress, Told, SilenceIsUnsubscribed, Discovery, Handle,
        OpConnectReturns, config, handles, transfers, history
  <2> QED
    BY <2>1, <2>2, <2>3, <2>4 DEF LinkInv
<1>3. CASE ConnectFails
  <2>1. Flags'
    BY <1>3 DEF LinkInv, Flags, ConnectFails, scan, config, handles, transfers, history
  <2>2. Names'
    BY <1>3 DEF LinkInv, Names, Discovery, Handle, ConnectFails, scan, config, handles,
        transfers, history
  <2>3. Sizes' /\ Mtu'
    BY <1>3 DEF LinkInv, Sizes, Mtu, ConnectFails, scan, config, handles, transfers, history
  <2>4. StateMatchesConn' /\ ConnMatchesLink' /\ FlagsMatchStack' /\ Owner' /\ Progress' /\ Told'
    BY <1>3, NoneAssumption DEF LinkInv, Flags, Names, StateMatchesConn, ConnMatchesLink,
        FlagsMatchStack, Owner, Progress, Told, SilenceIsUnsubscribed, Discovery, Handle,
        ConnectFails, scan, config, handles, transfers, history
  <2> QED
    BY <2>1, <2>2, <2>3, <2>4 DEF LinkInv
<1>4. CASE Connected
  <2>1. Flags'
    BY <1>4 DEF LinkInv, Flags, Connected, ResetHandles, scan, config, history
  <2>2. Names'
    BY <1>4 DEF LinkInv, Names, Discovery, Handle, Connected, ResetHandles, scan, config,
        history
  <2>3. Sizes' /\ Mtu'
    <3>1. att_mtu' = 23 /\ mtu' = mtu /\ payload_len' = PayloadLen(TRUE, 23, mtu)
      BY <1>4 DEF Connected, scan, config, history
    <3>2. /\ mtu' \in Mtus /\ att_mtu' \in {0, 23} \union LinkMtus
          /\ link' = "up" => att_mtu' # 0
      BY <3>1, MtuAssumption DEF LinkInv, Sizes, Mtu
    <3>3. \/ payload_len' = PayloadLen(TRUE, att_mtu', mtu')
          \/ payload_len' = payload_len /\ (link' = "up" => link = "up" /\ att_mtu' >= att_mtu)
      BY <3>1, MtuAssumption DEF LinkInv, Sizes
    <3> QED
      BY <3>2, <3>3, SizesKept
  <2>4. StateMatchesConn' /\ ConnMatchesLink' /\ FlagsMatchStack' /\ Owner' /\ Progress' /\ Told'
    BY <1>4, NoneAssumption DEF LinkInv, Flags, Names, StateMatchesConn, ConnMatchesLink,
        FlagsMatchStack, Owner, Progress, Told, SilenceIsUnsubscribed, Discovery, Handle,
        Connected, ResetHandles, scan, config, history
  <2> QED
    BY <2>1, <2>2, <2>3, <2>4 DEF LinkInv
<1> QED
  BY <1>1, <1>2, <1>3, <1>4 DEF ConnectNext

\* Discovery goes on one step at a time.
LEMMA DiscoveryKeeps ==
    ASSUME LinkInv, DiscoveryNext
    PROVE  LinkInv'
<1>1. CASE ServiceFound
  <2>1. Flags'
    BY <1>1 DEF LinkInv, Flags, ServiceFound, control, scan, config, transfers, stack,
        history
  <2>2. Names'
    BY <1>1 DEF LinkInv, Names, Discovery, Handle, ServiceFound, control, scan, config,
        transfers, stack, history
  <2>3. Sizes' /\ Mtu'
    BY <1>1 DEF LinkInv, Sizes, Mtu, ServiceFound, control, scan, config, transfers, stack,
        history
  <2>4. StateMatchesConn' /\ ConnMatchesLink' /\ FlagsMatchStack' /\ Owner' /\ Progress' /\ Told'
    BY <1>1, NoneAssumption DEF LinkInv, Flags, Names, StateMatchesConn, ConnMatchesLink,
        FlagsMatchStack, Owner, Progress, Told, SilenceIsUnsubscribed, Discovery, Handle,
        ServiceFound, control, scan, config, transfers, stack, history
  <2> QED
    BY <2>1, <2>2, <2>3, <2>4 DEF LinkInv
<1>2. CASE ServicesDone
  <2>1. Flags'
    BY <1>2 DEF LinkInv, Flags, ServicesDone, ProfileError, Completes, control, scan,
        config, handles, transfers, history
  <2>2. Names'
    BY <1>2 DEF LinkInv, Names, Discovery, Handle, ServicesDone, ProfileError, Completes,
        control, scan, config, handles, transfers, history
  <2>3. Sizes' /\ Mtu'
    BY <1>2 DEF LinkInv, Sizes, Mtu, ServicesDone, Completes, control, scan, config,
        handles, transfers, history
  <2>4. StateMatchesConn' /\ ConnMatchesLink' /\ FlagsMatchStack' /\ Owner' /\ Progress' /\ Told'
    BY <1>2, NoneAssumption DEF LinkInv, Flags, Names, StateMatchesConn, ConnMatchesLink,
        FlagsMatchStack, Owner, Progress, Told, SilenceIsUnsubscribed, Discovery, Handle,
        ServicesDone, ProfileError, Completes, control, scan, config, handles, transfers,
        history
  <2> QED
    BY <2>1, <2>2, <2>3, <2>4 DEF LinkInv
<1>3. CASE CharacteristicFound
  <2>1. Flags'
    BY <1>3 DEF LinkInv, Flags, CharacteristicFound, control, scan, config, transfers,
        stack, history
  <2>2. Names'
    BY <1>3 DEF LinkInv, Names, Discovery, Handle, CharacteristicFound, control, scan,
        config, transfers, stack, history
  <2>3. Sizes' /\ Mtu'
    BY <1>3 DEF LinkInv, Sizes, Mtu, CharacteristicFound, control, scan, config, transfers,
        stack, history
  <2>4. StateMatchesConn' /\ ConnMatchesLink' /\ FlagsMatchStack' /\ Owner' /\ Progress' /\ Told'
    BY <1>3, NoneAssumption DEF LinkInv, Flags, Names, StateMatchesConn, ConnMatchesLink,
        FlagsMatchStack, Owner, Progress, Told, SilenceIsUnsubscribed, Discovery, Handle,
        CharacteristicFound, control, scan, config, transfers, stack, history
  <2> QED
    BY <2>1, <2>2, <2>3, <2>4 DEF LinkInv
<1>4. CASE CharacteristicsDone
  <2>1. Flags'
    BY <1>4 DEF LinkInv, Flags, CharacteristicsDone, ProfileError, Completes, control, scan,
        config, handles, transfers, history
  <2>2. Names'
    BY <1>4 DEF LinkInv, Names, Discovery, Handle, CharacteristicsDone, ProfileError,
        Completes, control, scan, config, handles, transfers, history
  <2>3. Sizes' /\ Mtu'
    BY <1>4 DEF LinkInv, Sizes, Mtu, CharacteristicsDone, Completes, control, scan, config,
        handles, transfers, history
  <2>4. StateMatchesConn' /\ ConnMatchesLink' /\ FlagsMatchStack' /\ Owner' /\ Progress' /\ Told'
    BY <1>4, NoneAssumption DEF LinkInv, Flags, Names, StateMatchesConn, ConnMatchesLink,
        FlagsMatchStack, Owner, Progress, Told, SilenceIsUnsubscribed, Discovery, Handle,
        CharacteristicsDone, ProfileError, Completes, control, scan, config, handles,
        transfers, history
  <2> QED
    BY <2>1, <2>2, <2>3, <2>4 DEF LinkInv
<1>5. CASE SubscribeDone
  <2>1. Flags'
    BY <1>5 DEF LinkInv, Flags, SubscribeDone, ProfileError, ProfileReady, Completes, scan,
        config, transfers, history
  <2>2. Names'
    BY <1>5 DEF LinkInv, Names, Discovery, Handle, SubscribeDone, ProfileError,
        ProfileReady, Completes, scan, config, transfers, history
  <2>3. Sizes' /\ Mtu'
    BY <1>5 DEF LinkInv, Sizes, Mtu, SubscribeDone, Completes, scan, config, transfers,
        history
  <2>4. StateMatchesConn' /\ ConnMatchesLink' /\ FlagsMatchStack' /\ Owner' /\ Progress' /\ Told'
    BY <1>5, NoneAssumption DEF LinkInv, Flags, Names, StateMatchesConn, ConnMatchesLink,
        FlagsMatchStack, Owner, Progress, Told, SilenceIsUnsubscribed, Discovery, Handle,
        SubscribeDone, ProfileError, ProfileReady, Completes, scan, config, transfers,
        history
  <2> QED
    BY <2>1, <2>2, <2>3, <2>4 DEF LinkInv
<1>6. CASE SubscriptionDropped
  <2>1. Flags'
    BY <1>6 DEF LinkInv, Flags, SubscriptionDropped, control, scan, config, transfers,
        stack, history
  <2>2. Names'
    BY <1>6 DEF LinkInv, Names, Discovery, Handle, SubscriptionDropped, control, scan,
        config, transfers, stack, history
  <2>3. Sizes' /\ Mtu'
    BY <1>6 DEF LinkInv, Sizes, Mtu, SubscriptionDropped, control, scan, config, transfers,
        stack, history
  <2>4. StateMatchesConn' /\ ConnMatchesLink' /\ FlagsMatchStack' /\ Owner' /\ Progress' /\ Told'
    BY <1>6, NoneAssumption DEF LinkInv, Flags, Names, StateMatchesConn, ConnMatchesLink,
        FlagsMatchStack, Owner, Progress, Told, SilenceIsUnsubscribed, Discovery, Handle,
        SubscriptionDropped, control, scan, config, transfers, stack, history
  <2> QED
    BY <2>1, <2>2, <2>3, <2>4 DEF LinkInv
<1>7. CASE CccFound
  <2>1. Flags'
    BY <1>7 DEF LinkInv, Flags, CccFound, control, scan, config, handles, transfers, history
  <2>2. Names'
    BY <1>7 DEF LinkInv, Names, Discovery, Handle, CccFound, control, scan, config, handles,
        transfers, history
  <2>3. Sizes' /\ Mtu'
    BY <1>7 DEF LinkInv, Sizes, Mtu, CccFound, control, scan, config, handles, transfers,
        history
  <2>4. StateMatchesConn' /\ ConnMatchesLink' /\ FlagsMatchStack' /\ Owner' /\ Progress' /\ Told'
    BY <1>7, NoneAssumption DEF LinkInv, Flags, Names, StateMatchesConn, ConnMatchesLink,
        FlagsMatchStack, Owner, Progress, Told, SilenceIsUnsubscribed, Discovery, Handle,
        CccFound, control, scan, config, handles, transfers, history
  <2> QED
    BY <2>1, <2>2, <2>3, <2>4 DEF LinkInv
<1>8. CASE CccMissing
  <2>1. Flags'
    BY <1>8 DEF LinkInv, Flags, CccMissing, Completes, control, scan, config, transfers
  <2>2. Names'
    BY <1>8 DEF LinkInv, Names, Discovery, Handle, CccMissing, Completes, control, scan,
        config, transfers
  <2>3. Sizes' /\ Mtu'
    BY <1>8 DEF LinkInv, Sizes, Mtu, CccMissing, Completes, control, scan, config, transfers
  <2>4. StateMatchesConn' /\ ConnMatchesLink' /\ FlagsMatchStack' /\ Owner' /\ Progress' /\ Told'
    BY <1>8, NoneAssumption DEF LinkInv, Flags, Names, StateMatchesConn, ConnMatchesLink,
        FlagsMatchStack, Owner, Progress, Told, SilenceIsUnsubscribed, Discovery, Handle,
        CccMissing, Completes, control, scan, config, transfers
  <2> QED
    BY <2>1, <2>2, <2>3, <2>4 DEF LinkInv
<1> QED
  BY <1>1, <1>2, <1>3, <1>4, <1>5, <1>6, <1>7, <1>8 DEF DiscoveryNext

\* MTU exchanges and writes set and clear their flags with the procedures.
LEMMA TransferKeeps ==
    ASSUME LinkInv, TransferNext
    PROVE  LinkInv'
<1>1. CASE OpRequestMtu
  <2>1. Flags'
    BY <1>1 DEF LinkInv, Flags, OpRequestMtu, AtCommand, control, scan, config, handles,
        history
  <2>2. Names'
    BY <1>1 DEF LinkInv, Names, Discovery, Handle, OpRequestMtu, AtCommand, control, scan,
        config, handles, history
  <2>3. Sizes' /\ Mtu'
    <3>1. /\ UNCHANGED <<att_mtu, mtu, link>>
          /\ (payload_len' = payload_len \/ payload_len' = PayloadLen(TRUE, att_mtu, mtu))
      BY <1>1 DEF OpRequestMtu, control, scan, config, handles, history
    <3>2. /\ mtu' \in Mtus /\ att_mtu' \in {0, 23} \union LinkMtus
          /\ link' = "up" => att_mtu' # 0
      BY <3>1, MtuAssumption DEF LinkInv, Sizes, Mtu
    <3>3. \/ payload_len' = PayloadLen(TRUE, att_mtu', mtu')
          \/ payload_len' = payload_len /\ (link' = "up" => link = "up" /\ att_mtu' >= att_mtu)
      <4>1. att_mtu' >= att_mtu
        BY <3>1, MtuAssumption DEF LinkInv, Sizes
      <4> QED
        BY <3>1, <4>1, Zenon
    <3> QED
      BY <3>2, <3>3, SizesKept
  <2>4. StateMatchesConn' /\ ConnMatchesLink' /\ FlagsMatchStack'
    <3>1. UNCHANGED <<app_state, current_conn, link, write_in_progress>>
      BY <1>1 DEF OpRequestMtu, AtCommand, control, scan, config, handles, history
    <3>2. \/ UNCHANGED <<exchange_in_progress, att>>
          \/ exchange_in_progress' = TRUE /\ att' = att \union {"exchange"}
      BY <1>1 DEF OpRequestMtu, AtCommand, control, scan, config, handles, history
    <3> QED
      BY <3>1, <3>2 DEF LinkInv, StateMatchesConn, ConnMatchesLink, FlagsMatchStack
  <2>5. Owner' /\ Progress' /\ Told'
    BY <1>1, NoneAssumption DEF LinkInv, Flags, Names, ConnMatchesLink, Owner, Progress,
        Told, SilenceIsUnsubscribed, Discovery, Handle, OpRequestMtu, AtCommand, control,
        scan, config, handles, history
  <2> QED
    BY <2>1, <2>2, <2>3, <2>4, <2>5 DEF LinkInv
<1>2. CASE ExchangeDone
  <2>1. Flags'
    BY <1>2 DEF LinkInv, Flags, ExchangeDone, Completes, control, scan, config, handles,
        history
  <2>2. Names'
    BY <1>2 DEF LinkInv, Names, Discovery, Handle, ExchangeDone, Completes, control, scan,
        config, handles, history
  <2>3. Sizes' /\ Mtu'
    <3>1. /\ UNCHANGED <<mtu, link>>
          /\ \/ UNCHANGED <<att_mtu, payload_len>>
             \/ /\ att_mtu' \in LinkMtus
                /\ payload_len' = PayloadLen(pm_conn, att_mtu', mtu)
      BY <1>2 DEF ExchangeDone, Completes, control, scan, config, handles, history
    <3>2. /\ mtu' \in Mtus /\ att_mtu' \in {0, 23} \union LinkMtus
          /\ link' = "up" => att_mtu' # 0
      BY <3>1, MtuAssumption DEF LinkInv, Sizes, Mtu
    <3>3. \/ payload_len' = PayloadLen(pm_conn, att_mtu', mtu')
          \/ payload_len' = payload_len /\ (link' = "up" => link = "up" /\ att_mtu' >= att_mtu)
      BY <3>1, MtuAssumption DEF LinkInv, Sizes
    <3> QED
      BY <3>2, <3>3, SizesKept
  <2>4. StateMatchesConn' /\ ConnMatchesLink' /\ FlagsMatchStack' /\ Owner' /\ Progress' /\ Told'
    BY <1>2, NoneAssumption DEF LinkInv, Flags, Names, StateMatchesConn, ConnMatchesLink,
        FlagsMatchStack, Owner, Progress, Told, SilenceIsUnsubscribed, Discovery, Handle,
        ExchangeDone, Completes, control, scan, config, handles, history
  <2> QED
    BY <2>1, <2>2, <2>3, <2>4 DEF LinkInv
<1>3. CASE PeerExchangesMtu
  <2>1. Flags'
    BY <1>3 DEF LinkInv, Flags, PeerExchangesMtu, control, scan, config, handles, transfers,
        history
  <2>2. Names'
    BY <1>3 DEF LinkInv, Names, Discovery, Handle, PeerExchangesMtu, control, scan, config,
        handles, transfers, history
  <2>3. Sizes' /\ Mtu'
    <3>1. /\ UNCHANGED <<mtu, payload_len>> /\ link = "up"
          /\ att_mtu' \in LinkMtus /\ att_mtu' > att_mtu
      BY <1>3 DEF PeerExchangesMtu, control, scan, config, handles, transfers, history
    <3> QED
      BY <3>1, MtuAssumption DEF LinkInv, Sizes, Mtu
  <2>4. StateMatchesConn' /\ ConnMatchesLink' /\ FlagsMatchStack' /\ Owner' /\ Progress' /\ Told'
    BY <1>3, NoneAssumption DEF LinkInv, Flags, Names, StateMatchesConn, ConnMatchesLink,
        FlagsMatchStack, Owner, Progress, Told, SilenceIsUnsubscribed, Discovery, Handle,
        PeerExchangesMtu, control, scan, config, handles, transfers, history
  <2> QED
    BY <2>1, <2>2, <2>3, <2>4 DEF LinkInv
<1>4. CASE OpSend
  <2>1. Flags'
    BY <1>4 DEF LinkInv, Flags, OpSend, AtCommand, control, scan, config, handles, history
  <2>2. Names'
    BY <1>4 DEF LinkInv, Names, Discovery, Handle, OpSend, AtCommand, control, scan, config,
        handles, history
  <2>3. Sizes' /\ Mtu'
    BY <1>4 DEF LinkInv, Sizes, Mtu, OpSend, control, scan, config, handles, history
  <2>4. StateMatchesConn' /\ ConnMatchesLink' /\ FlagsMatchStack' /\ Owner' /\ Progress' /\ Told'
    BY <1>4, NoneAssumption DEF LinkInv, Flags, Names, StateMatchesConn, ConnMatchesLink,
        FlagsMatchStack, Owner, Progress, Told, SilenceIsUnsubscribed, Discovery, Handle,
        OpSend, AtCommand, control, scan, config, handles, history
  <2> QED
    BY <2>1, <2>2, <2>3, <2>4 DEF LinkInv
<1>5. CASE WriteDone
  <2>1. Flags'
    BY <1>5 DEF LinkInv, Flags, WriteDone, ProfileError, Completes, control, scan, config,
        handles, history
  <2>2. Names'
    BY <1>5 DEF LinkInv, Names, Discovery, Handle, WriteDone, ProfileError, Completes,
        control, scan, config, handles, history
  <2>3. Sizes' /\ Mtu'
    BY <1>5 DEF LinkInv, Sizes, Mtu, WriteDone, Completes, control, scan, config, handles,
        history
  <2>4. StateMatchesConn' /\ ConnMatchesLink' /\ FlagsMatchStack' /\ Owner' /\ Progress' /\ Told'
    BY <1>5, NoneAssumption DEF LinkInv, Flags, Names, StateMatchesConn, ConnMatchesLink,
        FlagsMatchStack, Owner, Progress, Told, SilenceIsUnsubscribed, Discovery, Handle,
        WriteDone, ProfileError, Completes, control, scan, config, handles, history
  <2> QED
    BY <2>1, <2>2, <2>3, <2>4 DEF LinkInv
<1> QED
  BY <1>1, <1>2, <1>3, <1>4, <1>5 DEF TransferNext

\* Configuration changes at most the payload length.
LEMMA ConfigKeeps ==
    ASSUME LinkInv, ConfigNext
    PROVE  LinkInv'
<1>1. CASE OpSetProfile
  <2>1. Flags'
    BY <1>1 DEF LinkInv, Flags, OpSetProfile, AtCommand, control, scan, handles, stack,
        history
  <2>2. Names'
    BY <1>1 DEF LinkInv, Names, Discovery, Handle, OpSetProfile, AtCommand, control, scan,
        handles, stack, history
  <2>3. Sizes' /\ Mtu'
    <3>1. /\ UNCHANGED <<att_mtu, mtu, link>>
          /\ payload_len' \in {payload_len, PayloadLen(pm_conn, att_mtu, mtu)}
      BY <1>1 DEF OpSetProfile, control, scan, handles, stack, history
    <3>2. /\ mtu' \in Mtus /\ att_mtu' \in {0, 23} \union LinkMtus
          /\ link' = "up" => att_mtu' # 0
      BY <3>1, MtuAssumption DEF LinkInv, Sizes, Mtu
    <3>3. \/ payload_len' = PayloadLen(pm_conn, att_mtu', mtu')
          \/ payload_len' = payload_len /\ (link' = "up" => link = "up" /\ att_mtu' >= att_mtu)
      BY <3>1, MtuAssumption DEF LinkInv, Sizes
    <3> QED
      BY <3>2, <3>3, SizesKept
  <2>4. StateMatchesConn' /\ ConnMatchesLink' /\ FlagsMatchStack' /\ Owner' /\ Progress' /\ Told'
    BY <1>1, NoneAssumption DEF LinkInv, Flags, Names, StateMatchesConn, ConnMatchesLink,
        FlagsMatchStack, Owner, Progress, Told, SilenceIsUnsubscribed, Discovery, Handle,
        OpSetProfile, AtCommand, control, scan, handles, stack, history
  <2> QED
    BY <2>1, <2>2, <2>3, <2>4 DEF LinkInv
<1>2. CASE OpSetMtu
  <2>1. Flags'
    BY <1>2 DEF LinkInv, Flags, OpSetMtu, AtCommand, control, scan, handles, stack, history
  <2>2. Names'
    BY <1>2 DEF LinkInv, Names, Discovery, Handle, OpSetMtu, AtCommand, control, scan,
        handles, stack, history
  <2>3. Sizes' /\ Mtu'
    <3>1. /\ UNCHANGED <<att_mtu, link>> /\ mtu' \in Mtus
          /\ payload_len' \in {payload_len, PayloadLen(pm_conn, att_mtu, mtu')}
      BY <1>2 DEF OpSetMtu, control, scan, handles, stack, history
    <3>2. /\ mtu' \in Mtus /\ att_mtu' \in {0, 23} \union LinkMtus
          /\ link' = "up" => att_mtu' # 0
      BY <3>1, MtuAssumption DEF LinkInv, Sizes, Mtu
    <3>3. \/ payload_len' = PayloadLen(pm_conn, att_mtu', mtu')
          \/ payload_len' = payload_len /\ (link' = "up" => link = "up" /\ att_mtu' >= att_mtu)
      BY <3>1, MtuAssumption DEF LinkInv, Sizes
    <3> QED
      BY <3>2, <3>3, SizesKept
  <2>4. StateMatchesConn' /\ ConnMatchesLink' /\ FlagsMatchStack' /\ Owner' /\ Progress' /\ Told'
    BY <1>2, NoneAssumption DEF LinkInv, Flags, Names, StateMatchesConn, ConnMatchesLink,
        FlagsMatchStack, Owner, Progress, Told, SilenceIsUnsubscribed, Discovery, Handle,
        OpSetMtu, AtCommand, control, scan, handles, stack, history
  <2> QED
    BY <2>1, <2>2, <2>3, <2>4 DEF LinkInv
<1> QED
  BY <1>1, <1>2 DEF ConfigNext

\* Data mode is entered and left on a standing connection.
LEMMA ModeKeeps ==
    ASSUME LinkInv, ModeNext
    PROVE  LinkInv'
<1>1. CASE OpEnterDataMode
  <2>1. Flags'
    BY <1>1 DEF LinkInv, Flags, OpEnterDataMode, AtCommand, CanEnterDataMode, scan, config,
        handles, transfers, stack, history
  <2>2. Names'
    BY <1>1 DEF LinkInv, Names, Discovery, Handle, OpEnterDataMode, AtCommand,
        CanEnterDataMode, scan, config, handles, transfers, stack, history
  <2>3. Sizes' /\ Mtu'
    BY <1>1 DEF LinkInv, Sizes, Mtu, OpEnterDataMode, scan, config, handles, transfers,
        stack, history
  <2>4. StateMatchesConn' /\ ConnMatchesLink' /\ FlagsMatchStack' /\ Owner' /\ Progress' /\ Told'
    BY <1>1, NoneAssumption DEF LinkInv, Flags, Names, StateMatchesConn, ConnMatchesLink,
        FlagsMatchStack, Owner, Progress, Told, SilenceIsUnsubscribed, Discovery, Handle,
        OpEnterDataMode, AtCommand, CanEnterDataMode, scan, config, handles, transfers,
        stack, history
  <2> QED
    BY <2>1, <2>2, <2>3, <2>4 DEF LinkInv
<1>2. CASE Activate
  <2>1. Flags'
    BY <1>2 DEF LinkInv, Flags, Activate, AtCommand, scan, config, handles, transfers,
        stack, history
  <2>2. Names'
    BY <1>2 DEF LinkInv, Names, Discovery, Handle, Activate, AtCommand, scan, config,
        handles, transfers, stack, history
  <2>3. Sizes' /\ Mtu'
    BY <1>2 DEF LinkInv, Sizes, Mtu, Activate, scan, config, handles, transfers, stack,
        history
  <2>4. StateMatchesConn' /\ ConnMatchesLink' /\ FlagsMatchStack' /\ Owner' /\ Progress' /\ Told'
    BY <1>2, NoneAssumption DEF LinkInv, Flags, Names, StateMatchesConn, ConnMatchesLink,
        FlagsMatchStack, Owner, Progress, Told, SilenceIsUnsubscribed, Discovery, Handle,
        Activate, AtCommand, scan, config, handles, transfers, stack, history
  <2> QED
    BY <2>1, <2>2, <2>3, <2>4 DEF LinkInv
<1>3. CASE ExitDataMode
  <2>1. Flags'
    BY <1>3 DEF LinkInv, Flags, ExitDataMode, ConnState, scan, config, handles, transfers,
        stack, history
  <2>2. Names'
    BY <1>3 DEF LinkInv, Names, Discovery, Handle, ExitDataMode, ConnState, scan, config,
        handles, transfers, stack, history
  <2>3. Sizes' /\ Mtu'
    BY <1>3 DEF LinkInv, Sizes, Mtu, ExitDataMode, scan, config, handles, transfers, stack,
        history
  <2>4. StateMatchesConn' /\ ConnMatchesLink' /\ FlagsMatchStack' /\ Owner' /\ Progress' /\ Told'
    BY <1>3, NoneAssumption DEF LinkInv, Flags, Names, StateMatchesConn, ConnMatchesLink,
        FlagsMatchStack, Owner, Progress, Told, SilenceIsUnsubscribed, Discovery, Handle,
        ExitDataMode, ConnState, scan, config, handles, transfers, stack, history
  <2> QED
    BY <2>1, <2>2, <2>3, <2>4 DEF LinkInv
<1> QED
  BY <1>1, <1>2, <1>3 DEF ModeNext

\* A lost link ends with everything reset.
LEMMA DisconnectKeeps ==
    ASSUME LinkInv, DisconnectNext
    PROVE  LinkInv'
<1>1. CASE OpDisconnect
  <2>1. Flags'
    BY <1>1 DEF LinkInv, Flags, OpDisconnect, AtCommand, scan, config, handles, transfers,
        stack, history
  <2>2. Names'
    BY <1>1 DEF LinkInv, Names, Discovery, Handle, OpDisconnect, AtCommand, scan, config,
        handles, transfers, stack, history
  <2>3. Sizes' /\ Mtu'
    BY <1>1 DEF LinkInv, Sizes, Mtu, OpDisconnect, scan, config, handles, transfers, stack,
        history
  <2>4. StateMatchesConn' /\ ConnMatchesLink' /\ FlagsMatchStack' /\ Owner' /\ Progress' /\ Told'
    BY <1>1, NoneAssumption DEF LinkInv, Flags, Names, StateMatchesConn, ConnMatchesLink,
        FlagsMatchStack, Owner, Progress, Told, SilenceIsUnsubscribed, Discovery, Handle,
        OpDisconnect, AtCommand, scan, config, handles, transfers, stack, history
  <2> QED
    BY <2>1, <2>2, <2>3, <2>4 DEF LinkInv
<1>2. CASE LinkLost
  <2>1. Flags'
    BY <1>2 DEF LinkInv, Flags, LinkLost, control, scan, config, handles, transfers, history
  <2>2. Names'
    BY <1>2 DEF LinkInv, Names, Discovery, Handle, LinkLost, control, scan, config, handles,
        transfers, history
  <2>3. Sizes' /\ Mtu'
    <3>1. UNCHANGED <<mtu, payload_len>> /\ att_mtu' = 0 /\ link' = "lost"
      BY <1>2 DEF LinkLost, control, scan, config, handles, transfers, history
    <3> QED
      BY <3>1, MtuAssumption DEF LinkInv, Sizes, Mtu
  <2>4. StateMatchesConn' /\ ConnMatchesLink' /\ FlagsMatchStack' /\ Owner' /\ Progress' /\ Told'
    BY <1>2, NoneAssumption DEF LinkInv, Flags, Names, StateMatchesConn, ConnMatchesLink,
        FlagsMatchStack, Owner, Progress, Told, SilenceIsUnsubscribed, Discovery, Handle,
        LinkLost, control, scan, config, handles, transfers, history
  <2> QED
    BY <2>1, <2>2, <2>3, <2>4 DEF LinkInv
<1>3. CASE Disconnected
  <2>1. Flags'
    BY <1>3 DEF LinkInv, Flags, Disconnected, ResetHandles, scan, config, history
  <2>2. Names'
    BY <1>3 DEF LinkInv, Names, Discovery, Handle, Disconnected, ResetHandles, scan, config,
        history
  <2>3. Sizes' /\ Mtu'
    <3>1. /\ UNCHANGED <<mtu, att_mtu>> /\ link' = "down"
          /\ payload_len' = PayloadLen(TRUE, att_mtu, mtu)
      BY <1>3 DEF Disconnected, scan, config, history
    <3>2. /\ mtu' \in Mtus /\ att_mtu' \in {0, 23} \union LinkMtus
          /\ link' = "up" => att_mtu' # 0
      BY <3>1, MtuAssumption DEF LinkInv, Sizes, Mtu
    <3>3. \/ payload_len' = PayloadLen(TRUE, att_mtu', mtu')
          \/ payload_len' = payload_len /\ (link' = "up" => link = "up" /\ att_mtu' >= att_mtu)
      BY <3>1, MtuAssumption DEF LinkInv, Sizes
    <3> QED
      BY <3>2, <3>3, SizesKept
  <2>4. StateMatchesConn' /\ ConnMatchesLink' /\ FlagsMatchStack' /\ Owner' /\ Progress' /\ Told'
    BY <1>3, NoneAssumption DEF LinkInv, Flags, Names, StateMatchesConn, ConnMatchesLink,
        FlagsMatchStack, Owner, Progress, Told, SilenceIsUnsubscribed, Discovery, Handle,
        Disconnected, ResetHandles, scan, config, history
  <2> QED
    BY <2>1, <2>2, <2>3, <2>4 DEF LinkInv
<1> QED
  BY <1>1, <1>2, <1>3 DEF DisconnectNext

----------------------------------------------------------------------------
\* Nothing is connected at the start.
LEMMA LinkInit == Init => LinkInv
<1> SUFFICES ASSUME Init PROVE LinkInv
  OBVIOUS
<1>1. Flags /\ Names
  BY DEF Init, Flags, Names, Discovery, Handle
<1>2. Sizes /\ Mtu
  <2>1. mtu \in Mtus /\ att_mtu = 0 /\ link = "down" /\ payload_len = PayloadLen(FALSE, 0, mtu)
    BY Zenon DEF Init
  <2>2. PayloadLen(FALSE, 0, mtu) \in 20..256
    BY <2>1, MtuAssumption DEF PayloadLen
  <2> QED
    BY <2>1, <2>2 DEF Sizes, Mtu
<1>3. StateMatchesConn /\ ConnMatchesLink /\ FlagsMatchStack
  BY DEF Init, StateMatchesConn, ConnMatchesLink, FlagsMatchStack
<1>4. Owner /\ Progress /\ Told
  BY DEF Init, Owner, Progress, Told, SilenceIsUnsubscribed
<1> QED
  BY <1>1, <1>2, <1>3, <1>4 DEF LinkInv

\* Every step keeps the invariant.
LEMMA LinkStep == LinkInv /\ [Next]_vars => LinkInv'
<1> SUFFICES ASSUME LinkInv, [Next]_vars PROVE LinkInv'
  OBVIOUS
<1>1. CASE Next
  BY <1>1, ScanKeeps, ConnectKeeps, DiscoveryKeeps, TransferKeeps, ConfigKeeps, ModeKeeps,
      DisconnectKeeps DEF Next
<1>2. CASE UNCHANGED vars
  <2> USE <1>2 DEF LinkInv, vars, control, scan, config, handles, transfers, stack, history
  <2>1. Flags'
    BY DEF Flags
  <2>2. Names' /\ Sizes' /\ Mtu'
    BY DEF Names, Discovery, Sizes, Mtu, Handle
  <2>3. StateMatchesConn' /\ ConnMatchesLink' /\ FlagsMatchStack'
    BY DEF StateMatchesConn, ConnMatchesLink, FlagsMatchStack
  <2>4. Owner' /\ Progress' /\ Told'
    BY DEF Owner, Progress, Told, SilenceIsUnsubscribed, Discovery
  <2> QED
    BY <2>1, <2>2, <2>3, <2>4 DEF LinkInv
<1> QED
  BY <1>1, <1>2

\* The invariant holds throughout.
LEMMA LinkAlways == Spec => []LinkInv
  BY LinkInit, LinkStep, PTL DEF Spec

\* BleLink's variables keep their types and ranges; payload_len stays in 20..256
\* (update_payload_len's default and CONFIG_BT_L2CAP_TX_MTU less the ATT header).
THEOREM TypeCorrect == Spec => []TypeOK
<1>1. LinkInv => TypeOK
  BY Zenon DEF LinkInv, Flags, Names, Discovery, Sizes, TypeOK
<1> QED
  BY <1>1, LinkAlways, PTL

\* Application state, connection reference and stack agree, whichever of commands, timer
\* and callbacks ran last: no reference leaks, none is missing (main.c, app_state and
\* current_conn).
THEOREM ConnectionConsistent == Spec => []ConnectionAgrees
<1>1. LinkInv => ConnectionAgrees
  BY DEF LinkInv, ConnectionAgrees
<1> QED
  BY <1>1, LinkAlways, PTL

\* The profile is ready only with every handle of this connection found
\* (subscribe_handler, profile_manager_reset).
THEOREM ReadyProfileResolved == Spec => []ReadyMeansResolved
<1>1. LinkInv => ReadyMeansResolved
  BY DEF LinkInv, Owner, Progress, Discovery, ReadyMeansResolved
<1> QED
  BY <1>1, LinkAlways, PTL

\* The busy flags of profile_manager.c are set exactly while the stack is at work.
THEOREM BusyFlagsExact == Spec => []FlagsMatchStack
<1>1. LinkInv => FlagsMatchStack
  BY DEF LinkInv
<1> QED
  BY <1>1, LinkAlways, PTL

\* A chunk always fits the link's MTU (update_payload_len).
THEOREM ChunksFitMtu == Spec => []PayloadFits
<1>1. LinkInv => PayloadFits
  BY DEF LinkInv, Mtu, PayloadFits
<1> QED
  BY <1>1, LinkAlways, PTL

\* While +IND=BLMC is unanswered a discovery callback is outstanding, unless the stack has
\* given the subscription up (the callbacks of profile_manager.c; notify_handler is the
\* one that reports nothing).
THEOREM NoOtherSilence == Spec => []SilenceIsUnsubscribed
<1>1. LinkInv => SilenceIsUnsubscribed
  BY DEF LinkInv, Told
<1> QED
  BY <1>1, LinkAlways, PTL

----------------------------------------------------------------------------
\* Every step of BleLink is a step of the session the host sees, or leaves it alone.
LEMMA SessionStep ==
    ASSUME LinkInv, Next
    PROVE  Session!Next \/ UNCHANGED SessionPhase
<1> USE DEF LinkInv, Names, Owner, Progress, Told, SilenceIsUnsubscribed, Discovery, StateMatchesConn, ConnMatchesLink,
        SessionPhase, Session!Next, Session!Established, Session!Resolved, Session!DataMode,
        Session!ControlMode, Session!Ended
<1>1. CASE ScanNext
  <2>1. CASE OpStartScan
    BY <2>1 DEF OpStartScan, AtCommand, history
  <2>2. CASE ScanTimeout
    BY <2>2 DEF ScanTimeout, control, history
  <2>3. CASE ScanStopReturns
    BY <2>3 DEF ScanStopReturns, ConnState, history
  <2> QED
    BY <1>1, <2>1, <2>2, <2>3 DEF ScanNext
<1>2. CASE ConnectNext
  <2>1. CASE OpConnect
    BY <2>1 DEF OpConnect, AtCommand, history
  <2>2. CASE OpConnectReturns
    BY <2>2 DEF OpConnectReturns, history
  <2>3. CASE ConnectFails
    BY <2>3 DEF ConnectFails, history
  <2>4. CASE Connected
    BY <2>4 DEF Connected
  <2> QED
    BY <1>2, <2>1, <2>2, <2>3, <2>4 DEF ConnectNext
<1>3. CASE DiscoveryNext
  <2>1. CASE ServiceFound
    BY <2>1 DEF ServiceFound, control, history
  <2>2. CASE ServicesDone
    BY <2>2 DEF ServicesDone, ProfileError, Completes, control, history
  <2>3. CASE CharacteristicFound
    BY <2>3 DEF CharacteristicFound, control, history
  <2>4. CASE CharacteristicsDone
    BY <2>4 DEF CharacteristicsDone, ProfileError, Completes, control, history
  <2>5. CASE SubscribeDone
    BY <2>5 DEF SubscribeDone, ProfileError, ProfileReady, Completes
  <2>6. CASE SubscriptionDropped
    BY <2>6 DEF SubscriptionDropped, control, history
  <2>7. CASE CccFound
    BY <2>7 DEF CccFound, control, history
  <2>8. CASE CccMissing
    BY <2>8 DEF CccMissing, Completes, control, history
  <2> QED
    BY <1>3, <2>1, <2>2, <2>3, <2>4, <2>5, <2>6, <2>7, <2>8 DEF DiscoveryNext
<1>4. CASE TransferNext
  <2>1. CASE OpRequestMtu
    BY <2>1 DEF OpRequestMtu, AtCommand, control, history
  <2>2. CASE ExchangeDone
    BY <2>2 DEF ExchangeDone, Completes, control, history
  <2>3. CASE PeerExchangesMtu
    BY <2>3 DEF PeerExchangesMtu, control, history
  <2>4. CASE OpSend
    BY <2>4 DEF OpSend, AtCommand, control, history
  <2>5. CASE WriteDone
    BY <2>5 DEF WriteDone, ProfileError, Completes, control, history
  <2> QED
    BY <1>4, <2>1, <2>2, <2>3, <2>4, <2>5 DEF TransferNext
<1>5. CASE ConfigNext
  <2>1. CASE OpSetProfile
    BY <2>1 DEF OpSetProfile, AtCommand, control, history
  <2>2. CASE OpSetMtu
    BY <2>2 DEF OpSetMtu, AtCommand, control, history
  <2> QED
    BY <1>5, <2>1, <2>2 DEF ConfigNext
<1>6. CASE ModeNext
  <2>1. CASE OpEnterDataMode
    BY <2>1 DEF OpEnterDataMode, AtCommand, CanEnterDataMode, history
  <2>2. CASE Activate
    BY <2>2 DEF Activate, AtCommand, history
  <2>3. CASE ExitDataMode
    BY <2>3 DEF ExitDataMode, ConnState, history
  <2> QED
    BY <1>6, <2>1, <2>2, <2>3 DEF ModeNext
<1>7. CASE DisconnectNext
  <2>1. CASE OpDisconnect
    BY <2>1 DEF OpDisconnect, AtCommand, history
  <2>2. CASE LinkLost
    BY <2>2 DEF LinkLost, control, history
  <2>3. CASE Disconnected
    BY <2>3 DEF Disconnected
  <2> QED
    BY <1>7, <2>1, <2>2, <2>3 DEF DisconnectNext
<1> QED
  BY <1>1, <1>2, <1>3, <1>4, <1>5, <1>6, <1>7 DEF Next

\* The events the host sees follow LinkSession: never two resolutions of a profile, data
\* mode only on a ready profile, and an end that closes everything (the event lines of
\* main.c's callbacks).
THEOREM LinkSessionImplemented == Spec => ImplementsLinkSession
<1>1. Init => Session!Init
  BY DEF Init, Session!Init, SessionPhase
<1>2. LinkInv /\ [Next]_vars => [Session!Next]_SessionPhase
  <2>1. UNCHANGED vars => UNCHANGED SessionPhase
    BY DEF vars, control, SessionPhase, history
  <2> QED
    BY <2>1, SessionStep
<1> QED
  BY <1>1, <1>2, LinkAlways, PTL DEF Spec, ImplementsLinkSession, Session!Spec

=============================================================================
