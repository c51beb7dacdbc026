------------------------------- MODULE MCApp --------------------------------
(* The app around the session: the event bus and the log (EventLog), the      *)
(* tunnels the user keeps (TunnelList), and OpenFlux's arguments              *)
(* (TunnelArguments). They share no state, so every behaviour is one of a     *)
(* single part, the other two resting in their initial states.                *)
(*                                                                            *)
(* A bus of two and batches of two stand for 128 and 64: five events overflow *)
(* the one and outgrow the other. Two ids, and two versions of each tunnel.   *)
(* Payloads of up to three arguments, among them the flags the app owns in    *)
(* all their spellings, and the ways to pass a token.                         *)
EXTENDS EventLog, TunnelList, TunnelArguments, SequencesExt

VARIABLE part

AppVars == <<vars, listVars, argsVars, part>>

AppInit ==
  /\ Init /\ ListInit
  /\ \/ part = "arguments" /\ ArgsInit
     \/ /\ part \in {"log", "list"} /\ at = "rest"
        /\ form = Blank /\ edited = form /\ keyPath = Empty
        /\ payload = <<>> /\ args = <<>> /\ shown = <<>>

Log(A) == part = "log" /\ A /\ UNCHANGED <<listVars, argsVars, part>>

AppNext ==
  \/ Log(Next)
  \/ part = "list" /\ ListNext /\ UNCHANGED <<vars, argsVars, part>>
  \/ part = "arguments" /\ ArgsNext /\ UNCHANGED <<vars, listVars, part>>

\* The main thread gets to its messages.
AppFairSpec ==
  /\ AppInit /\ [][AppNext]_AppVars
  /\ WF_AppVars(Log(VmCollects)) /\ WF_AppVars(Log(LogsCollects)) /\ WF_AppVars(Log(Runnable))
-----------------------------------------------------------------------------
TypedValues == {Word("u"), Flag("debug"), Flag("s"), Flag("other")}
TypedTokens == {Word("secret"), Flag("secret")}

Owned == {Flag("role"), Flag("s"), FlagEq("socks5", "x"), FlagEq("r", "exit"),
          Flag("i"), Flag("tun"), Flag("client"), FlagEq("encryption-key-file", "x")}
Arguments == Owned \cup {Flag("url"), Word("x")}
MaxToken == Flag("maxToken")
Secret == Word("secret")
TokenFirst ==
  {<<MaxToken, Secret>>, <<FlagEq("maxToken", "secret")>>, <<MaxToken, MaxToken, Secret>>,
   <<MaxToken, Flag("secret")>>, <<MaxToken, Flag("tun"), Secret>>}
MCPayloads ==
  BoundedSeq(Arguments, 3) \cup {t \o <<a>> : t \in TokenFirst, a \in Arguments}
    \cup {<<a>> \o t : t \in TokenFirst, a \in {FlagEq("socks5", "x"), Flag("tun"), FlagEq("url", "x")}}
    \cup {<<Flag("i"), Word("x")>> \o t : t \in TokenFirst}
=============================================================================
