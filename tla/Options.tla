------------------------------ MODULE Options ------------------------------
(***************************************************************************)
(* parseOptions of driver/oracle/options.go: the connect string, its       *)
(* parameters and the options of the database become the configuration of  *)
(* ttc.Dial.  Parameters and options are Go maps, read in any order.       *)
(*                                                                         *)
(* A request is [uri, params, options].  A uri is [form, tls, service,     *)
(* sid, user, addresses]: form is "none", "descriptor", "url", "easy"*)
(* or "unreadable", tls whether its scheme asks for TLS; an address is its *)
(* protocol, "tcp" or "tcps", "" where the form has none.  params and      *)
(* options map names to values.  The settings are those with rules of their*)
(* own: how the connection is protected, where it goes and as whom, and    *)
(* how many rows are fetched.  The others are stored as "user" is.         *)
(***************************************************************************)
EXTENDS Naturals, Sequences, SequencesExt, FiniteSets

CONSTANTS
  Requests,
  DefaultBatch,   \* rows of a batch unless set, 65536
  MaxPrefetch     \* rows of a fetch unless set, at most, 65536

\* Names of parameters that mean the same.
Setting(name) ==
  CASE name \in {"ssl", "tcps"} -> "tls"
    [] name = "service" -> "service_name"
    [] name = "encryption" -> "nne"
    [] name = "data_integrity" -> "nne_checksum"
    [] OTHER -> name

Levels == {"rejected", "accepted", "required"}
IsLevel(name) == Setting(name) \in {"nne", "nne_checksum"}
IsRows(name) == name \in {"batch_size", "prefetch_rows"}
IsValid(name, value) == (IsLevel(name) => value \in Levels) /\ (IsRows(name) => value > 0)

\* What a connect string and an option can name: a host is no parameter.
Settable == {"tls", "wallet", "nne", "nne_checksum", "service_name", "sid", "user", "token",
             "batch_size", "prefetch_rows"}
ParamNames == Settable \cup {"ssl", "tcps", "service", "encryption", "data_integrity", "unknown"}
OptionNames == Settable \cup {"host", "unknown"}

IsNamed(given, names) ==
  DOMAIN given \subseteq names /\ \A n \in DOMAIN given : given[n] \in IF IsRows(n) THEN Nat ELSE STRING

\* Left out: two parameters that mean the same, of which the order of a map decides,
\* and TLS turned off for an address that asks for it (see README.md).
ASSUME OptionsAssumption ==
  /\ DefaultBatch \in Nat \ {0} /\ MaxPrefetch \in Nat \ {0}
  /\ \A r \in Requests :
       /\ r.uri \in [form : STRING, tls : BOOLEAN, service : STRING, sid : STRING, user : STRING,
                     addresses : Seq({"", "tcp", "tcps"})]
       /\ IsNamed(r.params, ParamNames) /\ IsNamed(r.options, OptionNames)
       /\ \A m, n \in DOMAIN r.params : Setting(m) = Setting(n) => m = n
       /\ "tcps" \in Range(r.uri.addresses) =>
            /\ \A n \in DOMAIN r.params : Setting(n) = "tls" => r.params[n] = "on"
            /\ "tls" \in DOMAIN r.options => r.options["tls"] = "on"

VARIABLES
  request,
  step,      \* "uri", "params", "options", then "done" or "refused"
  unread,    \* names of params or options not yet read
  settings,  \* what has been read
  config     \* ttc.Config: [protocols, tls, encryption, checksum, service, sid, batch, prefetch]

optionsVars == <<request, step, unread, settings, config>>

Unset == [tls |-> "off", wallet |-> "", nne |-> "", nne_checksum |-> "",
          service_name |-> "", sid |-> "", user |-> "", token |-> "", protocols |-> <<>>,
          batch_size |-> DefaultBatch, prefetch_rows |-> 0]

NoConfig == [protocols |-> <<>>, tls |-> FALSE, encryption |-> "", checksum |-> "", service |-> "", sid |-> "",
             batch |-> 0, prefetch |-> 0]

RefuseRequest == step' = "refused" /\ UNCHANGED <<request, unread, settings, config>>

\* The scheme asks for TLS, or the protocol of any address.
TlsOf(uri) == IF uri.tls \/ "tcps" \in Range(uri.addresses) THEN "on" ELSE "off"

\* A connect string that cannot be read, or a descriptor that names no host.
IsReadable(uri) == uri.form /= "unreadable" /\ (uri.form = "descriptor" => uri.addresses /= <<>>)

ReadUri ==
  /\ step = "uri"
  /\ LET uri == request.uri
     IN IF ~ IsReadable(uri) THEN RefuseRequest
        ELSE /\ settings' = [Unset EXCEPT !.tls = TlsOf(uri),
                                          !.service_name = uri.service, !.sid = uri.sid,
                                          !.user = uri.user, !.protocols = uri.addresses]
             /\ step' = "params" /\ unread' = DOMAIN request.params
             /\ UNCHANGED <<request, config>>

\* Fault: a wallet turns TLS on as it is read, and a "tls" read later turns it off.
FaultyStore(name, value) ==
  settings' = IF name = "wallet" THEN [settings EXCEPT !.wallet = value, !.tls = "on"]
              ELSE [settings EXCEPT ![Setting(name)] = value]

\* Whatever comes later wins; a host replaces all addresses, and has no protocol yet.
Store(name, value) ==
  settings' = IF name = "host" THEN [settings EXCEPT !.protocols = <<"">>]
              ELSE [settings EXCEPT ![Setting(name)] = value]

Read(name, value) ==
  IF ~ IsValid(name, value) THEN RefuseRequest
  ELSE /\ Store(name, value)
       /\ unread' = unread \ {name} /\ UNCHANGED <<request, step, config>>

\* A name that means nothing is an error in a connect string, and ignored as an option.
ReadParam ==
  /\ step = "params"
  /\ \E name \in unread : IF name = "unknown" THEN RefuseRequest ELSE Read(name, request.params[name])

IgnoreOption ==
  /\ step = "options" /\ "unknown" \in unread
  /\ unread' = unread \ {"unknown"} /\ UNCHANGED <<request, step, settings, config>>

ParamsRead ==
  /\ step = "params" /\ unread = {}
  /\ step' = "options" /\ unread' = DOMAIN request.options
  /\ UNCHANGED <<request, settings, config>>

ReadOption == step = "options" /\ \E name \in unread \ {"unknown"} : Read(name, request.options[name])

\* What is given must say where, what and who.
IsComplete ==
  /\ settings.protocols /= <<>>
  /\ settings.service_name /= "" \/ settings.sid /= ""
  /\ settings.user /= "" \/ settings.token /= ""

Tls == settings.tls = "on" \/ settings.wallet /= ""

\* Native encryption: accepted over TCP, off over TLS, the checksum as the encryption.
Encryption == IF settings.nne /= "" THEN settings.nne ELSE IF Tls THEN "rejected" ELSE "accepted"
Checksum == IF settings.nne_checksum /= "" THEN settings.nne_checksum ELSE Encryption
Prefetch ==
  IF settings.prefetch_rows /= 0 THEN settings.prefetch_rows
  ELSE IF settings.batch_size > MaxPrefetch THEN MaxPrefetch ELSE settings.batch_size

Build ==
  /\ step = "options" /\ unread = {}
  /\ IF ~ IsComplete \/ settings.wallet = "unreadable" THEN RefuseRequest
     ELSE /\ config' = [protocols |-> [a \in DOMAIN settings.protocols |->
                                         IF Tls THEN "tcps" ELSE settings.protocols[a]],
                        tls |-> Tls, encryption |-> Encryption, checksum |-> Checksum,
                        service |-> settings.service_name, sid |-> settings.sid,
                        batch |-> settings.batch_size, prefetch |-> Prefetch]
          /\ step' = "done" /\ UNCHANGED <<request, unread, settings>>

OptionsInit ==
  /\ request \in Requests /\ step = "uri" /\ unread = {} /\ settings = Unset /\ config = NoConfig

OptionsNext == ReadUri \/ ReadParam \/ ParamsRead \/ ReadOption \/ IgnoreOption \/ Build

OptionsSpec == OptionsInit /\ [][OptionsNext]_optionsVars

-----------------------------------------------------------------------------

\* What was asked for: an option first, then a parameter, then the rest of the connect string.
Asked(setting, rest) ==
  IF setting \in DOMAIN request.options THEN request.options[setting]
  ELSE LET given == {n \in DOMAIN request.params : Setting(n) = setting}
       IN IF given /= {} THEN request.params[CHOOSE n \in given : TRUE] ELSE rest

AskedTls ==
  \/ Asked("wallet", "") /= ""
  \/ Asked("tls", TlsOf(request.uri)) = "on"

AskedLevel(service, rest) == IF Asked(service, "") = "" THEN rest ELSE Asked(service, "")

IsAcceptable ==
  /\ IsReadable(request.uri)
  /\ "unknown" \notin DOMAIN request.params
  /\ \A n \in DOMAIN request.params : IsValid(n, request.params[n])
  /\ \A n \in DOMAIN request.options : IsValid(n, request.options[n])
  /\ request.uri.addresses /= <<>> \/ "host" \in DOMAIN request.options
  /\ Asked("service_name", request.uri.service) /= "" \/ Asked("sid", request.uri.sid) /= ""
  /\ Asked("user", request.uri.user) /= "" \/ Asked("token", "") /= ""
  /\ Asked("wallet", "") /= "unreadable"

\* In whatever order the maps are read, the configuration is what was asked for, explicit
\* options before the connect string: TLS on every address if a wallet or anything that
\* decides asks for it, and the levels of native encryption follow from what TLS comes to
\* in the end.  Unless asked for, no more rows are fetched than a batch holds.  A request
\* that is acceptable is never refused, one that is not always is.
ExplicitWins ==
  /\ step = "done" =>
       /\ config.tls = AskedTls
       /\ config.tls => Range(config.protocols) = {"tcps"}
       /\ ~ config.tls => "tcps" \notin Range(config.protocols)
       /\ config.encryption = AskedLevel("nne", IF AskedTls THEN "rejected" ELSE "accepted")
       /\ config.checksum = AskedLevel("nne_checksum", config.encryption)
       /\ config.service = Asked("service_name", request.uri.service)
       /\ config.sid = Asked("sid", request.uri.sid)
       /\ Len(config.protocols) = (IF "host" \in DOMAIN request.options THEN 1 ELSE Len(request.uri.addresses))
       /\ config.batch = Asked("batch_size", DefaultBatch)
       /\ config.prefetch = Asked("prefetch_rows", config.prefetch)
       /\ config.prefetch > config.batch => Asked("prefetch_rows", 0) > 0
  /\ step \in {"done", "refused"} => (step = "done") = IsAcceptable

=============================================================================
