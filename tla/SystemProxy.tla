----------------------------- MODULE SystemProxy -----------------------------
(***************************************************************************)
(* The Windows proxy settings and the two functions that change them,      *)
(* set_system_proxy and set_pac_proxy of core/src/sysproxy.rs, called by   *)
(* start() and stop() of proxy.rs.                                         *)
(*                                                                         *)
(* The settings exist twice: as plain values of the registry (ProxyEnable, *)
(* ProxyServer, AutoConfigURL) and in the WinINET blob browsers read.  A   *)
(* call writes one value after the other and the blob last, and returns at *)
(* the first write that fails.  Between calls the user works in the        *)
(* Windows settings, which write both.                                     *)
(***************************************************************************)

CONSTANTS
    UserProxy,  \* the manual proxies the user may configure
    UserPac,    \* the PAC scripts the user may configure
    OurProxy,   \* the address of the accelerator's listener
    OurPac,     \* the URL of the accelerator's PAC script
    None        \* the empty string

ASSUME AddressAssumption ==
    /\ OurProxy \notin UserProxy /\ None \notin UserProxy
    /\ OurPac \notin UserPac /\ None \notin UserPac
    /\ OurProxy # None /\ OurPac # None

\* "registry": a call on the registry fails; "kill": the process dies.
FaultKind == {"registry", "kill"}

Server == UserProxy \cup {OurProxy, None}
Url == UserPac \cup {OurPac, None}

VARIABLES
    enable, server, autoUrl,    \* ProxyEnable, ProxyServer, AutoConfigURL
    bManual, bAuto,             \* two flags of the blob
    bServer, bUrl,              \* two strings of the blob
    call,       \* the call in progress
    step,       \* what it writes next
    manual,     \* manual_enabled, read at the head of set_pac_proxy
    mode,       \* the mode start() and stop() believe in
    faults      \* the failures of this behaviour, chosen once

plain == <<enable, server, autoUrl>>
blob == <<bManual, bAuto, bServer, bUrl>>
vars == <<plain, blob, call, step, manual, mode, faults>>

OnCall == {"system on", "pac on"}
OffCall == {"system off", "pac off"}

TypeOK ==
    /\ enable \in BOOLEAN /\ server \in Server /\ autoUrl \in Url
    /\ bManual \in BOOLEAN /\ bAuto \in BOOLEAN /\ bServer \in Server /\ bUrl \in Url
    /\ call \in OnCall \cup OffCall \cup {"none"}
    /\ step \in {"plain", "server", "blob"}
    /\ manual \in BOOLEAN
    /\ mode \in {"off", "System", "Pac"}
    /\ faults \in SUBSET FaultKind

\* Windows keeps the two copies in agreement.
Init ==
    /\ enable \in BOOLEAN /\ bManual = enable
    /\ server \in UserProxy \cup {None} /\ bServer = server
    /\ enable => server # None
    /\ autoUrl \in UserPac \cup {None} /\ bUrl = autoUrl
    /\ bAuto = (autoUrl # None)
    /\ call = "none" /\ step = "plain" /\ manual = FALSE
    /\ mode = "off"
    /\ faults \in SUBSET FaultKind

(***************************************************************************)
(* The callers.                                                            *)
(***************************************************************************)
\* start() enables, stop() disables; open_settings and the reads that follow
\* change nothing.
Begin(c) ==
    /\ call = "none"
    /\ \/ c \in OnCall /\ mode = "off"
       \/ c = "system off" /\ mode = "System"
       \/ c = "pac off" /\ mode = "Pac"
    /\ call' = c
    /\ step' = "plain"
    /\ \/ manual' = (c \in {"pac on", "pac off"} /\ enable)
       \/ "registry" \in faults /\ manual' = FALSE
    /\ UNCHANGED <<plain, blob, mode, faults>>

\* The call is over.  An error of a start rolls the mode back; stop() has
\* cleared it before it called and ignores the result.
Return(m) ==
    /\ call' = "none"
    /\ step' = "plain"
    /\ manual' = FALSE
    /\ mode' = m
    /\ UNCHANGED faults

Fail ==
    /\ "registry" \in faults
    /\ call # "none"
    /\ Return("off")
    /\ UNCHANGED <<plain, blob>>

Kill ==
    /\ "kill" \in faults
    /\ Return("off")
    /\ UNCHANGED <<plain, blob>>

(***************************************************************************)
(* The plain values.                                                       *)
(***************************************************************************)
WriteEnable ==
    /\ call \in {"system on", "system off"}
    /\ step = "plain"
    /\ enable' = (call = "system on")
    /\ step' = IF call = "system on" THEN "server" ELSE "blob"
    /\ UNCHANGED <<server, autoUrl, blob, call, manual, mode, faults>>

\* ProxyServer, and ProxyOverride with the fixed no-proxy list.
WriteServer ==
    /\ step = "server"
    /\ server' = OurProxy
    /\ step' = "blob"
    /\ UNCHANGED <<enable, autoUrl, blob, call, manual, mode, faults>>

\* Mutant: set_pac_proxy(false) leaves the URL.
WriteUrlOn ==
    /\ call \in {"pac on", "pac off"}
    /\ step = "plain"
    /\ autoUrl' = IF call = "pac on" THEN OurPac ELSE autoUrl
    /\ step' = "blob"
    /\ UNCHANGED <<enable, server, blob, call, manual, mode, faults>>

WriteUrl ==
    /\ call \in {"pac on", "pac off"}
    /\ step = "plain"
    /\ autoUrl' = IF call = "pac on" THEN OurPac ELSE None
    /\ step' = "blob"
    /\ UNCHANGED <<enable, server, blob, call, manual, mode, faults>>

(***************************************************************************)
(* The blob.                                                               *)
(***************************************************************************)
\* update_blob: the endpoint, the PAC URL and their flags.
UpdateBlob(endpoint, url) ==
    /\ bManual' = (endpoint # None)
    /\ bAuto' = (url # None)
    /\ bServer' = endpoint
    /\ bUrl' = url

\* Mutants: the PAC flag is left alone; the flags become those of a direct
\* connection.
KeepPacFlag(m, a) == bManual' = m /\ UNCHANGED <<bAuto, bServer, bUrl>>

ResetFlags(m, a) == bManual' = FALSE /\ bAuto' = FALSE /\ UNCHANGED <<bServer, bUrl>>

\* set_blob_flags: the strings stay, unless the blob cannot be read and the
\* skeleton takes its place.
SetBlobFlags(m, a) ==
    /\ bManual' = m
    /\ bAuto' = a
    /\ \/ UNCHANGED <<bServer, bUrl>>
       \/ "registry" \in faults /\ bServer' = None /\ bUrl' = None

\* read_auto_config_url and read_proxy_server yield None when they fail.
ReadBack(value) == {value} \cup IF "registry" \in faults THEN {None} ELSE {}

WriteBlob ==
    /\ step = "blob"
    /\ CASE call = "system on"  ->
               \E url \in ReadBack(autoUrl) : UpdateBlob(OurProxy, url)
         [] call = "system off" ->
               \E url \in ReadBack(autoUrl) : SetBlobFlags(FALSE, url # None)
         [] call = "pac on"     ->
               \E proxy \in ReadBack(server) :
                   UpdateBlob(IF manual THEN proxy ELSE None, OurPac)
         [] OTHER               -> SetBlobFlags(manual, FALSE)
    /\ Return(CASE call = "system on" -> "System"
                [] call = "pac on"    -> "Pac"
                [] OTHER              -> "off")
    /\ UNCHANGED plain

(***************************************************************************)
(* The user, in the Windows settings.  Who enables a proxy there has       *)
(* entered its address, which is not that of the accelerator.              *)
(***************************************************************************)
UserSetsProxy(on, p) ==
    /\ call = "none"
    /\ enable' = on /\ bManual' = on
    /\ server' = p /\ bServer' = p
    /\ UNCHANGED <<autoUrl, bAuto, bUrl, call, step, manual, mode, faults>>

UserSetsPac(u) ==
    /\ call = "none"
    /\ autoUrl' = u /\ bUrl' = u
    /\ bAuto' = (u # None)
    /\ UNCHANGED <<enable, server, bManual, bServer, call, step, manual, mode, faults>>

UserStep ==
    \/ \E on \in BOOLEAN, p \in UserProxy : UserSetsProxy(on, p)
    \/ \E u \in UserPac \cup {None} : UserSetsPac(u)

Next ==
    \/ \E c \in OnCall \cup OffCall : Begin(c)
    \/ WriteEnable \/ WriteServer \/ WriteUrl \/ WriteBlob
    \/ Fail \/ Kill \/ UserStep

Spec == Init /\ [][Next]_vars

(***************************************************************************)
(* Properties.                                                             *)
(***************************************************************************)
\* While nothing fails, what the browsers read is what the plain values say
\* whenever no call is in progress: a manual proxy the user left enabled stays effective through a PAC
\* session, and a PAC of the user through a system-proxy session.
\* (update_blob, set_blob_flags: "Keep the WinINET blob in sync")
BlobInSync ==
    faults = {} /\ call = "none" =>
        /\ bManual = enable
        /\ bManual => bServer = server
        /\ bAuto = (autoUrl # None)
        /\ bAuto => bUrl = autoUrl

\* While nothing fails, a stopped accelerator directs no browser to its
\* listener, whatever the user changed while it ran and whatever modes were switched through.
\* (set_system_proxy(false), set_pac_proxy(false) as stop() calls them)
StoppedDirectsNobody ==
    faults = {} /\ call = "none" /\ mode = "off" =>
        /\ ~(bManual /\ bServer = OurProxy) /\ ~(bAuto /\ bUrl = OurPac)
        /\ ~(enable /\ server = OurProxy) /\ autoUrl # OurPac

\* A disabling call that gets to its end withdraws the mode it ends from both
\* copies, after any earlier failure or kill: the next session repairs what the
\* last one left.  (set_system_proxy(false), set_pac_proxy(false))
OffWithdraws ==
    [][/\ call \in OffCall /\ step = "blob" /\ call' = "none" /\ blob' # blob
       => IF call = "system off" THEN ~bManual' /\ ~enable'
                                 ELSE ~bAuto' /\ autoUrl' = None]_vars

=============================================================================
