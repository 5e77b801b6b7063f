----------------------------- MODULE Provision -----------------------------
(***************************************************************************)
(* The system client with the credentials of the samples: a thread, the    *)
(* shell, stores a new PSK or PSK-ID while the client is stopped,          *)
(* connecting or connected (settings_golioth.c), golioth_system_client_    *)
(* start looks at what is stored, and a handshake takes it.                *)
(*                                                                         *)
(* Three states of the stored pair are told apart: refused by start, as it *)
(* is absent or malformed, wrong for the server, and good.                 *)
(***************************************************************************)
EXTENDS SystemClient

VARIABLES
  cred,     \* the TLS credentials of the client's tag
  setter,   \* the thread in golioth_settings_set
  session   \* ghost: which credentials the handshake or the session has

provided == <<cred, setter, session>>
allVars == <<vars, provided>>

ProvisionInit ==
  /\ Init
  /\ cred \in {"refused", "wrong", "good"} /\ setter = "idle" /\ session = "none"

-----------------------------------------------------------------------------
(* golioth_settings_set.                                                   *)

\* The old credential is deleted before the new one is read.
Delete ==
  /\ setter = "idle" /\ asker = "idle"
  /\ cred' = "refused" /\ setter' = "deleted"
  /\ UNCHANGED <<vars, session>>

\* The new one cannot be read, is too long or cannot be added: there is none.
SetFails ==
  /\ setter = "deleted"
  /\ setter' = "idle"
  /\ UNCHANGED <<vars, cred, session>>

Store ==
  /\ setter = "deleted"
  /\ cred' \in {"refused", "wrong", "good"} /\ setter' = "stored"
  /\ session' = IF session = "stored" THEN "old" ELSE session
  /\ UNCHANGED vars

\* golioth_system_client_request_reconnect.
AskReconnect ==
  /\ setter = "stored" /\ AskFlag
  /\ setter' = "idle"
  /\ UNCHANGED <<cred, session>>

-----------------------------------------------------------------------------
(* The client.                                                             *)

\* golioth_check_psk_credentials accepts them; otherwise start only warns.
StartChecked == cred # "refused" /\ Start /\ UNCHANGED provided

\* The handshake, at some time during client_connect; a server takes only good ones.
TakeCredentials ==
  /\ pc = "connect" /\ session = "none" /\ cred = "good"
  /\ session' = "stored"
  /\ UNCHANGED <<vars, cred, setter>>

ConnectWith ==
  /\ session # "none" /\ Connected
  /\ UNCHANGED provided

\* The socket is closed.
EndSession ==
  /\ NotConnected \/ Disconnect
  /\ session' = "none"
  /\ UNCHANGED <<cred, setter>>

ServeSession ==
  /\ \/ WaitStart \/ Flush \/ Prepare \/ Poll \/ FlagsClose \/ FlagsPing \/ Receive
     \/ CancelWork
  /\ UNCHANGED provided

OtherSteps ==
  /\ \/ PollError \/ Expire \/ RunWork
     \/ Stop \/ StopFlag \/ StopWrite \/ AskWrite \/ Wakeup \/ Arrive \/ Tick
  /\ UNCHANGED provided

ProvisionNext ==
  \/ Delete \/ SetFails \/ Store \/ AskReconnect
  \/ StartChecked \/ TakeCredentials \/ ConnectWith \/ EndSession
  \/ ServeSession \/ OtherSteps

ProvisionSpec == ProvisionInit /\ [][ProvisionNext]_allVars

\* The threads and the work queue are scheduled, a call once begun goes on, time
\* does not stop, and a server tried for ever is reached.
FairSpec ==
  /\ ProvisionSpec
  /\ WF_allVars(ConnectWith \/ EndSession \/ ServeSession)
  /\ SF_allVars(TakeCredentials) /\ SF_allVars(ConnectWith)
  /\ WF_allVars(Expire /\ UNCHANGED provided)
  /\ WF_allVars(RunWork /\ UNCHANGED provided)
  /\ WF_allVars(Tick /\ UNCHANGED provided)
  /\ WF_allVars((StopFlag \/ StopWrite) /\ UNCHANGED provided)
  /\ WF_allVars(AskWrite /\ UNCHANGED provided)
  /\ WF_allVars(AskReconnect)

-----------------------------------------------------------------------------
\* golioth_system_client_start: while start is the last call that was accepted and
\* the credentials stay good, the client keeps coming back to a connection, after a
\* lost one or a request to reconnect too; only an error of the poll ends it.
StartHonoured ==
  <>[](want = "run" /\ cred = "good" /\ pc # "ended") => []<>Open

\* golioth_settings_set: when credentials were stored, a session that was opened
\* with those before does not stay, whatever the client was doing when they were
\* stored; provided that the main loop still looks at its events now and then.
CredentialsApplied ==
  <>[](setter = "idle") /\ []<>(pc = "flags") => <>[](session # "old")
=============================================================================
