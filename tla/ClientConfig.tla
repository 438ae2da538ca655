----------------------------- MODULE ClientConfig -----------------------------
(***************************************************************************)
(* The client's configuration (src/otlp/client_options.go, lines 674-1382, *)
(* the current version of the file; and NewClient, src/unnamed/part_006):  *)
(* ClientOption values applied in order by apply(), each With* option,    *)
(* DefaultClientOptions reading the environment, ClientOptionsWithFlagSet, *)
(* then build() with fillDefaults for traces, metrics and logs, and the    *)
(* connection fingerprint of buildGRPCConnectionInfo.                      *)
(*                                                                         *)
(* NewClient is one call on one goroutine, so it is one step from the      *)
(* arguments to the result.  Strings that the properties look inside (a   *)
(* host, a user agent, the hash input) are sequences of letters; other    *)
(* values are small sets of model values or strings.  A URL is a record   *)
(* of scheme, host and path segments; nil is "nil".                        *)
(***************************************************************************)
EXTENDS Naturals, Sequences, SequencesExt, TLC

CONSTANTS
    EndpointArgs,   \* the endpoint strings passed to NewClient ("" for none)
    OptLists,       \* the option lists passed to NewClient
    Env             \* the process environment: [name |-> value] per prefix

Signals == <<"traces", "metrics", "logs">>
Sigs == {Signals[i] : i \in 1..3}
Scopes == {"all"} \cup Sigs

\* allowedProtocols
AllowedProtocols == {"grpc", "http/json", "http/protobuf"}

Nil == "nil"

\* A nil *url.URL, and a *bool as the set of what it points to ({} is nil).
NilURL == [scheme |-> "nil", host |-> <<>>, path |-> <<>>]
Ptr(b) == {b}
Deref(p) == CHOOSE b \in p : TRUE

\* The default user agent of build() ("go-otlp-helper/<version> ...").
DefaultUserAgent == <<"g">>

-----------------------------------------------------------------------------
(* Parsing.                                                                 *)

\* An endpoint string is the URL record url.Parse makes of it; the scheme
\* "%" stands for a string url.Parse rejects, and EmptyString for "".
EmptyString == [scheme |-> "", host |-> <<>>, path |-> <<>>]

\* parseEndpoint: url.Parse, then a scheme is required and must be http or
\* https.
ParseEndpoint(s) ==
    IF s.scheme \notin {"http", "https"}
    THEN [ok |-> FALSE]
    ELSE [ok |-> TRUE, url |-> s]

\* parseHeadersString: split on ',', each part split on the first '='; a
\* part without '=' (the empty string is one) is an error; a later key
\* overrides an earlier one.  A header string is its sequence of parts,
\* each [k |-> key, v |-> value], with v = Nil for a part without '='
\* ("" is the one part [k |-> "", v |-> Nil]).
ParseHeadersString(parts) ==
    IF \E i \in 1..Len(parts) : parts[i].v = Nil
    THEN [ok |-> FALSE]
    ELSE [ok |-> TRUE,
          h  |-> [k \in {parts[i].k : i \in 1..Len(parts)} |->
                    parts[CHOOSE i \in 1..Len(parts) :
                            parts[i].k = k /\ \A j \in i+1..Len(parts) : parts[j].k # k].v]]

\* time.ParseDuration on the strings the model uses.
ParseDuration(s) ==
    CASE s = "0s" -> [ok |-> TRUE, d |-> 0]
      [] s = "1s" -> [ok |-> TRUE, d |-> 1]
      [] OTHER    -> [ok |-> FALSE]

\* url.JoinPath(u, "v1/" + signal).
JoinPath(u, sig) == [u EXCEPT !.path = @ \o <<"v1", sig>>]

-----------------------------------------------------------------------------
(* clientOptions and clientSignalsOptions.                                 *)

EmptySignal ==
    [gzip |-> {}, userAgent |-> <<>>, endpoint |-> NilURL, protocol |-> "",
     exportTimeout |-> 0, headers |-> <<>>, httpClient |-> Nil]

EmptyOptions ==
    [endpoint |-> NilURL, protocol |-> "", userAgent |-> <<>>, headers |-> <<>>,
     gzip |-> {}, exportTimeout |-> 0, httpClient |-> Nil,
     traces |-> EmptySignal, metrics |-> EmptySignal, logs |-> EmptySignal]

\* The outcome of a step of configuration: the options, an error, a panic.
Ok(o) == [o |-> o, err |-> FALSE, panic |-> FALSE]
Err(o) == [o |-> o, err |-> TRUE, panic |-> FALSE]
Panic(o) == [o |-> o, err |-> FALSE, panic |-> TRUE]
Failed(r) == r.err \/ r.panic

\* Mutant: a signal's option function writing the shared field.
SetFieldSharedOnly(o, scope, f, v) == [o EXCEPT ![f] = v]

\* A With* option for all signals writes o's field, a WithTraces* (etc.)
\* option writes the signal's field.
SetField(o, scope, f, v) ==
    IF scope = "all" THEN [o EXCEPT ![f] = v] ELSE [o EXCEPT ![scope][f] = v]

\* One ClientOption of the With* family.  An option is a record
\* [kind, scope, val]; the kinds are the option functions' families.
WithOption(o, opt) ==
    CASE opt.kind = "userAgent" -> Ok(SetField(o, opt.scope, "userAgent", opt.val))
      [] opt.kind = "gzip"      -> Ok(SetField(o, opt.scope, "gzip", Ptr(opt.val)))
      [] opt.kind = "headers"   -> Ok(SetField(o, opt.scope, "headers", opt.val))
      [] opt.kind = "headersString" ->
            LET p == ParseHeadersString(opt.val)
            IN  IF p.ok THEN Ok(SetField(o, opt.scope, "headers", p.h)) ELSE Err(o)
      [] opt.kind = "protocol" ->
            IF opt.val \in AllowedProtocols
            THEN Ok(SetField(o, opt.scope, "protocol", opt.val)) ELSE Err(o)
      [] opt.kind = "timeout"   -> Ok(SetField(o, opt.scope, "exportTimeout", opt.val))
      [] opt.kind = "endpoint" ->
            LET p == ParseEndpoint(opt.val)
            IN  IF p.ok THEN Ok(SetField(o, opt.scope, "endpoint", p.url)) ELSE Err(o)
      [] opt.kind = "httpClient" -> Ok(SetField(o, opt.scope, "httpClient", opt.val))

-----------------------------------------------------------------------------
(* The environment and the flags.  A setting is an envSetters key: a field *)
(* (PROTOCOL, ENDPOINT, TIMEOUT, HEADERS) and a scope (OTLP_X for all,     *)
(* OTLP_TRACES_X etc.).  Env maps each prefix to the settings present.     *)

Settings == {"protocol", "endpoint", "timeout", "headers"} \X Scopes

\* envSetters: the With* option a setting's string value stands for; a
\* Mutant: the OTLP_<SIGNAL>_TIMEOUT setters calling WithExportTimeout.
SettingOptionSharedTimeout(s, v) ==
    CASE s[1] = "timeout" -> [kind |-> "timeoutString", scope |-> "all", val |-> v]
      [] OTHER -> [kind |-> IF s[1] = "headers" THEN "headersString" ELSE s[1],
                   scope |-> s[2], val |-> v]

\* TIMEOUT is parsed with time.ParseDuration first.
SettingOption(s, v) ==
    CASE s[1] = "protocol" -> [kind |-> "protocol", scope |-> s[2], val |-> v]
      [] s[1] = "endpoint" -> [kind |-> "endpoint", scope |-> s[2], val |-> v]
      [] s[1] = "headers"  -> [kind |-> "headersString", scope |-> s[2], val |-> v]
      [] s[1] = "timeout"  -> [kind |-> "timeoutString", scope |-> s[2], val |-> v]

ApplySetting(o, s, v) ==
    LET opt == SettingOption(s, v)
    IN  IF opt.kind = "timeoutString"
        THEN LET d == ParseDuration(v)
             IN  IF d.ok THEN WithOption(o, [opt EXCEPT !.kind = "timeout", !.val = d.d])
                 ELSE Err(o)
        ELSE WithOption(o, opt)

\* lookupEnvValue: the first prefix (envPrefixes, or "" when none) under
\* which the setting is present.
LookupEnv(s, prefixes) ==
    LET ps == IF prefixes = <<>> THEN <<"">> ELSE prefixes
        hits == {i \in 1..Len(ps) : ps[i] \in DOMAIN Env /\ s \in DOMAIN Env[ps[i]]}
    IN  IF hits = {} THEN [found |-> FALSE]
        ELSE [found |-> TRUE,
              v |-> Env[ps[CHOOSE i \in hits : \A j \in hits : i <= j]][s]]

\* Applies F to each element of xs in order, stopping at the first failure
\* (the loop of apply() and of DefaultClientOptions).
ApplyEach(o, xs, F(_, _)) ==
    LET r[i \in 0..Len(xs)] ==
            IF i = 0 THEN Ok(o)
            ELSE LET prev == r[i - 1]
                 IN  IF Failed(prev) THEN prev ELSE F(prev.o, xs[i])
    IN  r[Len(xs)]

\* An enumeration of the settings.  DefaultClientOptions and
\* ClientOptionsWithFlagSet range over the envSetters map in Go's random
\* order, so their definitions take the order as a parameter; the runs use
\* this one and the property EnvOrderIrrelevant compares it with its
\* reverse.
SettingFields == <<"protocol", "endpoint", "timeout", "headers">>
SettingScopes == <<"all", "traces", "metrics", "logs">>
SettingSeq == [i \in 1..16 |-> <<SettingFields[(i - 1) \div 4 + 1], SettingScopes[((i - 1) % 4) + 1]>>]

\* DefaultClientOptions(envPrefixes...), ranging over the settings in the
\* given order.
DefaultClientOptionsIn(o, prefixes, order) ==
    LET Step(oo, s) == LET l == LookupEnv(s, prefixes)
                       IN  IF l.found THEN ApplySetting(oo, s, l.v) ELSE Ok(oo)
    IN  ApplyEach(o, order, Step)

DefaultClientOptions(o, prefixes) == DefaultClientOptionsIn(o, prefixes, SettingSeq)

-----------------------------------------------------------------------------
(* build() and fillDefaults.                                               *)

\* clientSignalsOptions.fillDefaults(o): each unset field takes o's value;
\* a protocol outside allowedProtocols is an error; an unset endpoint is
\* o's endpoint joined with v1/<signal> for an http/ protocol (o.endpoint is
\* dereferenced: a nil one panics) or o's endpoint as is; still nil is an
\* error; o's headers fill the keys the signal does not set.
FillDefaults(o, sig) ==
    LET so  == o[sig]
        ua  == IF so.userAgent = <<>> THEN o.userAgent ELSE so.userAgent
        pr  == IF so.protocol = "" THEN o.protocol ELSE so.protocol
        gz  == IF so.gzip = {} THEN o.gzip ELSE so.gzip
        to  == IF so.exportTimeout = 0 THEN o.exportTimeout ELSE so.exportTimeout
        hc  == IF so.httpClient = Nil THEN o.httpClient ELSE so.httpClient
        http == pr \in {"http/json", "http/protobuf"}
        ep  == CASE so.endpoint # NilURL -> so.endpoint
                 [] http /\ o.endpoint # NilURL -> JoinPath(o.endpoint, sig)
                 [] OTHER -> o.endpoint
        filled == [so EXCEPT !.userAgent = ua, !.protocol = pr, !.gzip = gz,
                             !.exportTimeout = to, !.httpClient = hc,
                             !.endpoint = ep, !.headers = so.headers @@ o.headers]
        o1 == [o EXCEPT ![sig] = filled]
    IN  CASE pr \notin AllowedProtocols                    -> Err(o)
          [] so.endpoint = NilURL /\ http /\ o.endpoint = NilURL -> Panic(o)
          [] ep = NilURL                                   -> Err(o)
          [] OTHER                                         -> Ok(o1)

\* clientOptions.build(): defaults for the shared fields, then fillDefaults
\* for traces, metrics and logs in that order, stopping at an error.
Build(o) ==
    LET o1 == [o EXCEPT !.userAgent = IF @ = <<>> THEN DefaultUserAgent ELSE @,
                        !.gzip = IF @ = {} THEN Ptr(FALSE) ELSE @,
                        !.protocol = IF @ = "" THEN "grpc" ELSE @,
                        !.httpClient = IF @ = Nil THEN "DefaultClient" ELSE @]
    IN  ApplyEach(o1, Signals, FillDefaults)

\* ClientOptionsWithFlagSet: DefaultClientOptions, then one option per
\* envSetters key that applies the flag's value when it is not "", all run
\* through o.apply(...), which ends with build().  flags maps the settings
\* whose flag was given a non-empty value to that value.
ClientOptionsWithFlagSetIn(o, prefixes, flags, order) ==
    LET r == DefaultClientOptionsIn(o, prefixes, order)
        FlagStep(oo, s) == IF s \in DOMAIN flags THEN ApplySetting(oo, s, flags[s]) ELSE Ok(oo)
        r2 == IF Failed(r) THEN r ELSE ApplyEach(r.o, order, FlagStep)
    IN  IF Failed(r2) THEN r2 ELSE Build(r2.o)

ClientOptionsWithFlagSet(o, prefixes, flags) ==
    ClientOptionsWithFlagSetIn(o, prefixes, flags, SettingSeq)

\* Any ClientOption.
ApplyOption(o, opt) ==
    CASE opt.kind = "env"   -> DefaultClientOptions(o, opt.prefixes)
      [] opt.kind = "flags" -> ClientOptionsWithFlagSet(o, opt.prefixes, opt.flags)
      [] OTHER              -> WithOption(o, opt)

\* clientOptions.apply(opts...): every option in order, then build().
Apply(o, opts) ==
    LET r == ApplyEach(o, opts, ApplyOption)
    IN  IF Failed(r) THEN r ELSE Build(r.o)

\* NewClient(endpoint, opts...): parse a non-empty endpoint into o.endpoint,
\* then apply.
NewClientResult(endpoint, opts) ==
    IF endpoint = EmptyString THEN Apply(EmptyOptions, opts)
    ELSE LET p == ParseEndpoint(endpoint)
         IN  IF p.ok THEN Apply([EmptyOptions EXCEPT !.endpoint = p.url], opts)
             ELSE Err(EmptyOptions)

-----------------------------------------------------------------------------
(* What the client uses of a signal's options.                             *)

\* isHTTPProtocol and httpContentType.
HttpContentType(so) ==
    CASE so.protocol = "http/json"     -> "application/json"
      [] so.protocol = "http/protobuf" -> "application/x-protobuf"
      [] OTHER                         -> ""

\* buildGRPCConnectionInfo: the SHA-512 of the host, the user agent, then
\* "insecure" or "tls" by scheme, then "gzip" when compressing, written one
\* after the other into one hasher.  The hash is modelled by its input:
\* SHA-512 and %x are taken to be injective.
BuildGRPCConnectionInfo(so) ==
    so.endpoint.host \o so.userAgent
        \o (IF so.endpoint.scheme # "https" THEN <<"insecure">> ELSE <<"tls">>)
        \o (IF Deref(so.gzip) THEN <<"gzip">> ELSE <<>>)

\* grpcConnectionInfo: computed once under so.mu and cached; the options
\* do not change after build(), so the cache holds the same value.
GrpcConnectionInfo(so) == BuildGRPCConnectionInfo(so)

-----------------------------------------------------------------------------
(***************************************************************************)
(* The configuration model of the design (its section on the client): a   *)
(* configuration is a sequence of settings, each of one field at the      *)
(* shared level or at one signal's; the last setting of a field at a      *)
(* level is its value there, a zero value being unset; a signal's         *)
(* effective value is its own if set, else the shared one, else the       *)
(* default; headers merge with the signal's keys winning; an absent       *)
(* signal endpoint is the base joined with v1/<signal> for an HTTP        *)
(* protocol and the base otherwise; an invalid setting or a missing       *)
(* endpoint is a configuration error.                                     *)
(***************************************************************************)

\* The settings an option stands for, in order: the environment and the
\* flags stand for the settings they find.
EnvSettings(prefixes) ==
    LET found == SelectSeq(SettingSeq, LAMBDA st : LookupEnv(st, prefixes).found)
    IN  [i \in 1..Len(found) |-> <<found[i], LookupEnv(found[i], prefixes).v>>]

FlagSettings(flags) ==
    LET given == SelectSeq(SettingSeq, LAMBDA st : st \in DOMAIN flags)
    IN  [i \in 1..Len(given) |-> <<given[i], flags[given[i]]>>]

AsSetting(opt) ==
    CASE opt.kind = "headersString" -> [field |-> "headers", scope |-> opt.scope,
                                        ok |-> ParseHeadersString(opt.val).ok,
                                        val |-> IF ParseHeadersString(opt.val).ok
                                                THEN ParseHeadersString(opt.val).h ELSE <<>>]
      [] opt.kind = "endpoint" -> [field |-> "endpoint", scope |-> opt.scope,
                                   ok |-> ParseEndpoint(opt.val).ok, val |-> opt.val]
      [] opt.kind = "protocol" -> [field |-> "protocol", scope |-> opt.scope,
                                   ok |-> opt.val \in AllowedProtocols, val |-> opt.val]
      [] opt.kind = "timeout" -> [field |-> "exportTimeout", scope |-> opt.scope,
                                  ok |-> TRUE, val |-> opt.val]
      [] opt.kind = "gzip" -> [field |-> "gzip", scope |-> opt.scope, ok |-> TRUE,
                               val |-> Ptr(opt.val)]
      [] OTHER -> [field |-> opt.kind, scope |-> opt.scope, ok |-> TRUE, val |-> opt.val]

FromString(st, v) ==
    IF st[1] = "timeout"
    THEN [field |-> "exportTimeout", scope |-> st[2], ok |-> ParseDuration(v).ok,
          val |-> IF ParseDuration(v).ok THEN ParseDuration(v).d ELSE 0]
    ELSE AsSetting(SettingOption(st, v))

SettingsOf(opt) ==
    LET env == IF opt.kind \in {"env", "flags"} THEN EnvSettings(opt.prefixes) ELSE <<>>
        fl  == IF opt.kind = "flags" THEN FlagSettings(opt.flags) ELSE <<>>
        strs == env \o fl
    IN  IF opt.kind \in {"env", "flags"}
        THEN [i \in 1..Len(strs) |-> FromString(strs[i][1], strs[i][2])]
        ELSE <<AsSetting(opt)>>

RefSettings(endpoint, opts) ==
    (IF endpoint = EmptyString THEN <<>>
     ELSE <<AsSetting([kind |-> "endpoint", scope |-> "all", val |-> endpoint])>>)
    \o FlattenSeq([i \in 1..Len(opts) |-> SettingsOf(opts[i])])

ZeroOf(f) ==
    CASE f = "userAgent" -> <<>> [] f = "exportTimeout" -> 0 [] f = "headers" -> <<>>
      [] f = "gzip" -> {} [] f = "endpoint" -> NilURL [] OTHER -> Nil

DefaultOf(f) ==
    CASE f = "userAgent" -> DefaultUserAgent [] f = "gzip" -> Ptr(FALSE)
      [] f = "protocol" -> "grpc" [] f = "httpClient" -> "DefaultClient"
      [] OTHER -> ZeroOf(f)

\* The last value set for field f at level sc, or f's zero value.
LastSet(ss, f, sc) ==
    LET at == {i \in 1..Len(ss) : ss[i].field = f /\ ss[i].scope = sc}
    IN  IF at = {} THEN ZeroOf(f) ELSE ss[CHOOSE i \in at : \A j \in at : j <= i].val

Effective(ss, f, sig) ==
    LET own == LastSet(ss, f, sig)
        shared == LastSet(ss, f, "all")
    IN  CASE f = "headers"   -> own @@ shared
          [] own # ZeroOf(f) -> own
          [] shared # ZeroOf(f) -> shared
          [] OTHER -> DefaultOf(f)

RefEndpoint(ss, sig) ==
    LET own == LastSet(ss, "endpoint", sig)
        base == LastSet(ss, "endpoint", "all")
    IN  CASE own # NilURL -> own
          [] base = NilURL -> NilURL
          [] Effective(ss, "protocol", sig) \in {"http/json", "http/protobuf"} -> JoinPath(base, sig)
          [] OTHER -> base

Fields == {"userAgent", "gzip", "protocol", "exportTimeout", "headers", "httpClient"}

RefSignal(ss, sig) ==
    [f \in Fields \cup {"endpoint"} |->
        IF f = "endpoint" THEN RefEndpoint(ss, sig) ELSE Effective(ss, f, sig)]

RefAccepts(ss) ==
    /\ \A i \in 1..Len(ss) : ss[i].ok
    /\ \A sig \in Sigs : RefEndpoint(ss, sig) # NilURL

SignalConfig(so) == [f \in Fields \cup {"endpoint"} |-> so[f]]

Succeeded(r) == ~Failed(r)

-----------------------------------------------------------------------------
VARIABLES endpointArg, opts, called, result

vars == <<endpointArg, opts, called, result>>

Init ==
    /\ endpointArg \in EndpointArgs
    /\ opts \in OptLists
    /\ called = FALSE
    /\ result = Ok(EmptyOptions)

NewClient ==
    /\ ~called
    /\ called' = TRUE
    /\ result' = NewClientResult(endpointArg, opts)
    /\ UNCHANGED <<endpointArg, opts>>

Next == NewClient

Spec == Init /\ [][Next]_vars

-----------------------------------------------------------------------------
(* Properties.                                                             *)

\* NewClient returns a client exactly when the design's configuration model
\* accepts the endpoint argument and the options, and then every signal's
\* effective user agent, compression, protocol, timeout, headers, HTTP
\* client and endpoint are the model's: the option functions, the
\* environment and flag setters, apply() and the nested build() of the flag
\* set, and fillDefaults together implement signal-over-shared-over-default.
ConfigMatchesSpec ==
    called =>
        LET ss == RefSettings(endpointArg, opts)
        IN  /\ Succeeded(result) <=> RefAccepts(ss)
            /\ Succeeded(result) =>
                  \A sig \in Sigs : SignalConfig(result.o[sig]) = RefSignal(ss, sig)

\* NewClient never panics: a configuration without an endpoint is reported
\* as an error (the design lists a missing endpoint among the configuration
\* errors), also when fillDefaults derives an HTTP signal's endpoint.
NewClientNoPanic == called => ~result.panic

\* The environment and flag options configure the same client whatever
\* order Go's map iteration visits the envSetters in: no two setters write
\* the same field, so DefaultClientOptions and ClientOptionsWithFlagSet
\* fail for the same inputs and otherwise yield the same options.
EnvOrderIrrelevant ==
    \A i \in 1..Len(opts) :
        LET opt == opts[i]
            Run(order) ==
                IF opt.kind = "env" THEN DefaultClientOptionsIn(EmptyOptions, opt.prefixes, order)
                ELSE ClientOptionsWithFlagSetIn(EmptyOptions, opt.prefixes, opt.flags, order)
            a == Run(SettingSeq)
            b == Run(Reverse(SettingSeq))
        IN  opt.kind \in {"env", "flags"} =>
                /\ Failed(a) = Failed(b)
                /\ ~Failed(a) => a.o = b.o

\* Two signals of a client get the same connection fingerprint from
\* grpcConnectionInfo only when their host, user agent, TLS selector and
\* compression selector are all equal, so that Start shares a channel only
\* between signals the channel is right for.
FingerprintIdentifiesTuple ==
    called /\ Succeeded(result) =>
        \A s1, s2 \in Sigs :
            LET a == result.o[s1]  b == result.o[s2]
            IN  GrpcConnectionInfo(a) = GrpcConnectionInfo(b) =>
                    /\ a.endpoint.host = b.endpoint.host
                    /\ a.userAgent = b.userAgent
                    /\ (a.endpoint.scheme = "https") = (b.endpoint.scheme = "https")
                    /\ a.gzip = b.gzip

=============================================================================
