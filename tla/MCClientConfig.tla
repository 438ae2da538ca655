---------------------------- MODULE MCClientConfig ----------------------------
(* Small instances of ClientConfig: two hosts, URLs with and without a      *)
(* path, and option lists of up to three options (four with the flag set) drawn from a set that     *)
(* has, for every option family, a valid and (where the code can reject)  *)
(* an invalid value, at the shared level and at a signal's.                *)
EXTENDS ClientConfig

U1 == [scheme |-> "http",  host |-> <<"a">>, path |-> <<>>]
U2 == [scheme |-> "https", host |-> <<"b">>, path |-> <<"p">>]
Bad == [scheme |-> "%", host |-> <<>>, path |-> <<>>]

H1 == "k1" :> "1"
HS1 == <<[k |-> "k1", v |-> "2"], [k |-> "k2", v |-> "3"]>>
HSEmpty == <<[k |-> "", v |-> Nil]>>

\* The process environment: with no prefix, OTLP_LOGS_PROTOCOL and
\* OTLP_ENDPOINT; with the prefix OTEL_, OTLP_ENDPOINT, OTLP_TIMEOUT and
\* OTLP_TRACES_TIMEOUT;
\* with the prefix X_, an OTLP_TIMEOUT that time.ParseDuration rejects.
MCEnv == ("" :> ((<<"protocol", "logs">> :> "http/protobuf") @@ (<<"endpoint", "all">> :> U1)))
         @@ ("OTEL_" :> ((<<"endpoint", "all">> :> U2) @@ (<<"timeout", "all">> :> "1s")
                               @@ (<<"timeout", "traces">> :> "0s")))
         @@ ("X_" :> (<<"timeout", "all">> :> "5"))

EnvOpts == {[kind |-> "env", prefixes |-> ps] : ps \in {<<>>, <<"OTEL_", "">>, <<"X_">>}}
FlagsOpt == [kind |-> "flags", prefixes |-> <<>>,
             flags |-> (<<"headers", "traces">> :> HS1) @@ (<<"timeout", "metrics">> :> "1s")]

BasicOpts ==
    { [kind |-> "endpoint", scope |-> "all", val |-> U2],
      [kind |-> "endpoint", scope |-> "traces", val |-> U1],
      [kind |-> "endpoint", scope |-> "metrics", val |-> Bad],
      [kind |-> "protocol", scope |-> "all", val |-> "http/json"],
      [kind |-> "protocol", scope |-> "traces", val |-> "grpc"],
      [kind |-> "protocol", scope |-> "all", val |-> "thrift"],
      [kind |-> "gzip", scope |-> "all", val |-> TRUE],
      [kind |-> "gzip", scope |-> "logs", val |-> FALSE],
      [kind |-> "userAgent", scope |-> "traces", val |-> <<"b">>],
      [kind |-> "headers", scope |-> "all", val |-> H1],
      [kind |-> "headersString", scope |-> "traces", val |-> HS1],
      [kind |-> "headersString", scope |-> "all", val |-> HSEmpty],
      [kind |-> "timeout", scope |-> "all", val |-> 1],
      [kind |-> "httpClient", scope |-> "logs", val |-> "C"] }

MCEndpointArgs == {EmptyString, U1, Bad}

\* Option lists with the flag set, if at all, as the last option.
MCOptLists == BoundedSeq(BasicOpts \cup EnvOpts, 3)
              \cup {l \o <<FlagsOpt>> : l \in BoundedSeq(BasicOpts, 2)}

\* Endpoints with hosts "ab" and "a", and user agents "a" and "ba".
UAB == [scheme |-> "http", host |-> <<"a", "b">>, path |-> <<>>]
UA == [scheme |-> "http", host |-> <<"a">>, path |-> <<>>]
MCFingerprintEndpoints == {UAB}
MCFingerprintLists ==
    { <<[kind |-> "userAgent", scope |-> "all", val |-> <<"a">>],
        [kind |-> "endpoint", scope |-> s, val |-> UA],
        [kind |-> "userAgent", scope |-> s, val |-> u]>> :
          s \in Sigs, u \in {<<"b", "a">>, <<"a">>} }
=============================================================================
