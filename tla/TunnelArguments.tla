--------------------------- MODULE TunnelArguments ---------------------------
(* The arguments of OpenFlux: data/TunnelPayload.kt turns the form of          *)
(* AddTunFragment into a stored payload and back, service/NativeArgs.kt makes  *)
(* the command line of it and the copy shown in the log. A payload may also    *)
(* have come in a QR code, or been stored by an older version. An argument is  *)
(* a flag, --name or --name=value, or a word; a value typed into the form may  *)
(* be any of them. OpenFlux, a Go program, is external.                        *)
EXTENDS Naturals, Sequences, Functions

CONSTANTS
  Values,      \* what the user types into a field,
  Tokens,      \* and into the field of the MAX token
  Payloads     \* payloads not made by this version's form

ASSUME PayloadsAssumption == \A p \in Payloads : p \in Seq(Range(p))   \* they are sequences

Word(w) == [flag |-> FALSE, name |-> w, eq |-> FALSE, val |-> ""]
Flag(n) == [flag |-> TRUE, name |-> n, eq |-> FALSE, val |-> ""]
FlagEq(n, v) == [flag |-> TRUE, name |-> n, eq |-> TRUE, val |-> v]
Empty == Word("")

Transports == {"yandex", "vyandex", "max", "cupsonline", "mailru"}
cliName == [t \in Transports |-> IF t = "max" THEN "oneme" ELSE t]
usesUrl(t) == t # "max"
\* TransportType.from, of a name or of a cliName
from(raw) ==
  IF \E t \in Transports : raw \in {t, cliName[t]}
  THEN CHOOSE t \in Transports : raw \in {t, cliName[t]} ELSE "yandex"

Form == [transport : Transports, url : Values \cup {Empty}, maxToken : Tokens \cup {Empty},
         maxUid : Values \cup {Empty}, legacyCodec : BOOLEAN, debug : BOOLEAN]
NoPayload == <<Flag("none")>>   \* null
-----------------------------------------------------------------------------
buildForm(f) ==
  LET transportArgs == IF usesUrl(f.transport) THEN <<Flag("url"), f.url>>
                       ELSE <<Flag("maxToken"), f.maxToken, Flag("maxUid"), f.maxUid>>
  IN  IF Empty \in Range(transportArgs) THEN NoPayload
      ELSE <<Flag("role"), Word("client"), Flag("transport"), Word(cliName[f.transport])>>
             \o transportArgs
             \o (IF f.legacyCodec THEN <<Flag("codec"), Word("legacy")>> ELSE <<>>)
             \o (IF f.debug THEN <<Flag("debug")>> ELSE <<>>)

\* Mutant: what starts with a dash is no value.
valueNotAFlag(payload, n) ==
  LET at == {i \in DOMAIN payload : payload[i].flag /\ payload[i].name = n}
  IN  IF at = {} THEN Empty
      ELSE LET i == CHOOSE i \in at : \A j \in at : i <= j
           IN  IF payload[i].eq THEN Word(payload[i].val)
               ELSE IF i < Len(payload) /\ ~payload[i + 1].flag THEN payload[i + 1] ELSE Empty

value(payload, n) ==
  LET at == {i \in DOMAIN payload : payload[i].flag /\ payload[i].name = n}
  IN  IF at = {} THEN Empty
      ELSE LET i == CHOOSE i \in at : \A j \in at : i <= j
           IN  IF payload[i].eq THEN Word(payload[i].val)
               ELSE IF i < Len(payload) THEN payload[i + 1] ELSE Empty

hasFlag(payload, n) == Flag(n) \in Range(payload)

parse(transportType, payload) ==
  [transport   |-> from(transportType),
   url         |-> value(payload, "url"),
   maxToken    |-> value(payload, "maxToken"),
   maxUid      |-> value(payload, "maxUid"),
   legacyCodec |-> value(payload, "codec") = Word("legacy") \/ hasFlag(payload, "legacy"),
   debug       |-> hasFlag(payload, "debug")]
-----------------------------------------------------------------------------
flagName(arg) == IF arg.flag THEN arg.name ELSE "not a flag"

\* Mutant: the short spellings are forgotten.
OWNED_LONG_ONLY == {"role", "inbound", "socks5", "encryption-key-file"}

OWNED_WITH_VALUE == {"role", "r", "inbound", "i", "socks5", "s", "encryption-key-file"}
OWNED_BOOLEAN == {"client", "exit-node", "tun", "socks5-mode"}
SECRET_VALUES == {"maxToken"}

\* Whoever passes a token gives it to --maxToken, behind nothing that takes that flag for its
\* own value; flags that build() drops may stand in between.
PassesTokens(p) ==
  \A i \in DOMAIN p :
    \/ /\ p[i] \in Tokens
       /\ \E j \in 1 .. i - 1 :
            /\ p[j] = Flag("maxToken") /\ \A k \in j + 1 .. i - 1 : flagName(p[k]) \in OWNED_BOOLEAN
            /\ j > 1 => flagName(p[j - 1]) \notin OWNED_WITH_VALUE \/ p[j - 1].eq
    \/ /\ p[i] \notin Tokens
       /\ Word(p[i].val) \in Tokens => p[i].eq /\ flagName(p[i]) \in SECRET_VALUES

\* What the app itself writes into a payload, a command line or its copy.
AppArguments ==
  {Flag(n) : n \in {"role", "transport", "url", "maxToken", "maxUid", "codec", "debug",
                    "inbound", "socks5", "encryption-key-file"}}
    \cup {Word(w) : w \in {"client", "socks5", "legacy", "127.0.0.1:port", "key", "", "***",
                           "yandex", "vyandex", "oneme", "cupsonline", "mailru"}}
    \cup {FlagEq("maxToken", "***")}

ASSUME TokensAssumption ==   \* nothing but the token looks like it
  /\ \A a \in Values \cup AppArguments : a \notin Tokens /\ Word(a.val) \notin Tokens
  /\ \A p \in Payloads : PassesTokens(p)

\* Mutant: the value of a dropped flag stays behind.
KeptValues(payload) ==
  SelectSeq(payload, LAMBDA arg : flagName(arg) \notin OWNED_WITH_VALUE \cup OWNED_BOOLEAN)

\* The loop of build(): what is kept of the payload from its i-th argument on.
Kept(payload) ==
  LET kept[i \in 1 .. Len(payload) + 2] ==
        IF i > Len(payload) THEN <<>>
        ELSE IF flagName(payload[i]) \in OWNED_BOOLEAN THEN kept[i + 1]
        ELSE IF flagName(payload[i]) \in OWNED_WITH_VALUE
             THEN kept[IF payload[i].eq THEN i + 1 ELSE i + 2]
        ELSE <<payload[i]>> \o kept[i + 1]
  IN  kept[1]

Own(socksAddress, keyFile) ==
  <<Flag("role"), Word("client"), Flag("inbound"), Word("socks5"), Flag("socks5"), socksAddress>>
    \o IF keyFile = Empty THEN <<>> ELSE <<Flag("encryption-key-file"), keyFile>>

build(payload, socksAddress, keyFile) == Own(socksAddress, keyFile) \o Kept(payload)

\* Mutant: only --maxToken=value.
redactFlagsOnly(args) ==
  [i \in DOMAIN args |->
     IF args[i].eq /\ flagName(args[i]) \in SECRET_VALUES THEN FlagEq(args[i].name, "***") ELSE args[i]]

redact(args) ==
  [i \in DOMAIN args |->
     IF args[i].eq /\ flagName(args[i]) \in SECRET_VALUES THEN FlagEq(args[i].name, "***")
     ELSE IF i > 1 /\ flagName(args[IF i > 1 THEN i - 1 ELSE i]) \in SECRET_VALUES THEN Word("***")
     ELSE args[i]]
-----------------------------------------------------------------------------
\* Go's flag package: flags up to the first word; a flag that is not Boolean
\* takes the next argument as its value, whatever it is; the last one counts.
Booleans == OWNED_BOOLEAN \cup {"debug", "legacy"}
Long(n) == CASE n = "r" -> "role" [] n = "i" -> "inbound" [] n = "s" -> "socks5" [] OTHER -> n
GoFlags(args) ==
  LET flags[i \in 1 .. Len(args) + 2] ==
        IF i > Len(args) \/ ~args[IF i > Len(args) THEN 1 ELSE i].flag THEN <<>>
        ELSE LET n == Long(args[i].name)
             IN  IF args[i].eq THEN <<<<n, Word(args[i].val)>>>> \o flags[i + 1]
                 ELSE IF n \in Booleans THEN <<<<n, Word("true")>>>> \o flags[i + 1]
                 ELSE IF i = Len(args) THEN <<<<"missing value", Empty>>>>
                 ELSE <<<<n, args[i + 1]>>>> \o flags[i + 2]
  IN  flags[1]
GoValue(args, n) ==
  LET flags == GoFlags(args)
      given == {i \in DOMAIN flags : flags[i][1] = n}
  IN  IF given = {} THEN Empty ELSE flags[CHOOSE i \in given : \A j \in given : j <= i][2]
-----------------------------------------------------------------------------
VARIABLES
  form,      \* what the user typed, if the form made the payload
  payload,   \* Tunnel.transportConnPayload
  edited,    \* the form as it is filled again for editing
  keyPath,
  args, shown, \* OpenFlux's command line and its copy in the log
  at

argsVars == <<form, payload, edited, keyPath, args, shown, at>>

SocksAddress == Word("127.0.0.1:port")
Blank == [transport |-> "yandex", url |-> Empty, maxToken |-> Empty, maxUid |-> Empty,
          legacyCodec |-> FALSE, debug |-> FALSE]

ArgsInit ==
  /\ \/ form \in Form /\ payload = <<>> /\ at = "form"
     \/ form = Blank /\ payload \in Payloads /\ at = "stored"
  /\ edited = Blank /\ args = <<>> /\ shown = <<>>
  /\ keyPath \in {Empty, Word("key")}

Save ==
  /\ at = "form" /\ buildForm(form) # NoPayload
  /\ payload' = buildForm(form) /\ at' = "saved"
  /\ UNCHANGED <<form, edited, keyPath, args, shown>>

Edit ==
  /\ at \in {"saved", "stored"} /\ edited = Blank
  /\ edited' = parse(form.transport, payload)
  /\ UNCHANGED <<form, payload, keyPath, args, shown, at>>

Start ==
  /\ at \in {"saved", "stored"} /\ args = <<>>
  /\ args' = build(payload, SocksAddress, keyPath)
  /\ shown' = redact(args')
  /\ UNCHANGED <<form, payload, edited, keyPath, at>>

ArgsNext == Save \/ Edit \/ Start

ArgsSpec == ArgsInit /\ [][ArgsNext]_argsVars
-----------------------------------------------------------------------------
\* The fields the transport of a form uses, the others being blank.
Used(f) ==
  IF usesUrl(f.transport) THEN [f EXCEPT !.maxToken = Empty, !.maxUid = Empty] ELSE [f EXCEPT !.url = Empty]
FieldNames == {"url", "maxToken", "maxUid", "codec", "legacy", "debug"}
Typed == {form.url, form.maxToken, form.maxUid}

(* parse() inverts build() for every form in which no value is spelled like a  *)
(* flag the form has a field for: a value may be any other flag, even one that *)
(* NativeArgs owns.                                                            *)
ParseInvertsBuild ==
  at = "saved" /\ edited # Blank /\ (\A v \in Typed : flagName(v) \notin FieldNames) =>
    edited = Used(form)

(* Whatever flags a stored or scanned payload carries, under either spelling   *)
(* and both names, OpenFlux runs as a client, with its SOCKS5 server on the    *)
(* port the app chose, and with the app's key or none.                         *)
AppFlagsWin ==
  args # <<>> =>
    /\ GoValue(args, "role") = Word("client") /\ GoValue(args, "inbound") = Word("socks5")
    /\ GoValue(args, "socks5") = SocksAddress
    /\ GoValue(args, "encryption-key-file") = keyPath

(* What was typed into the form is what OpenFlux is given, unless a value is   *)
(* spelled like a flag that NativeArgs owns and drops.                         *)
FormReachesOpenFlux ==
  at = "saved" /\ args # <<>> /\ (\A v \in Typed : flagName(v) \notin OWNED_WITH_VALUE \cup OWNED_BOOLEAN) =>
    /\ GoValue(args, "transport") = Word(cliName[form.transport])
    /\ \A n \in {"url", "maxToken", "maxUid"} : GoValue(args, n) = Used(form)[n]
    /\ (GoValue(args, "codec") = Word("legacy")) = form.legacyCodec
    /\ (GoValue(args, "debug") = Word("true")) = form.debug

(* redact(), "safe to show in the log view": the MAX token does not appear in  *)
(* the log, whichever way the payload spells it, also when it looks like a     *)
(* flag and when a dropped flag stood next to it.                              *)
TokenIsHidden ==
  \A i \in DOMAIN shown : shown[i] \notin Tokens /\ Word(shown[i].val) \notin Tokens
=============================================================================
