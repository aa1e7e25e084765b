-------------------------- MODULE MCAdapterConfig ---------------------------
(***************************************************************************)
(* Small instances of AdapterConfig: two sets that share an approver, two  *)
(* approvers that share a phone, phones of two countries.                  *)
(***************************************************************************)
EXTENDS AdapterConfig, TLC

(* Writing a policy down *)

Items(n, values) == [i \in DOMAIN values |-> Item(n, values[i])]

\* The phones of one approver.  A flow list is on the key's own line.
PhoneLines(style, phones) ==
  IF style = "flow" THEN <<Pair(4, "phones", "[...]")>>
  ELSE <<Key(4, "phones")>> \o Items(6, phones)

\* An attribute that the adapter does not use stands before and after phones.
ApproverLines(style, entry) ==
  <<Key(2, entry[1]), Pair(4, "shell", "true")>> \o PhoneLines(style, entry[2])
    \o <<Key(4, "groups"), Item(6, "wheel")>>

SetLines(entry) == <<Key(2, entry[1])>> \o Items(4, entry[2])

RoutingLines(entry) ==
  <<Key(2, entry[1]), Pair(4, "approver_set", entry[2]), Pair(4, "max_execution_seconds", "300")>>

\* A section of a document; "settings" and "wall_notify" are not the adapter's.
Section(name, p, style) ==
  CASE name = "approver_sets" ->
         <<Key(0, name)>> \o FlattenSeq([i \in DOMAIN p.sets |-> SetLines(p.sets[i])])
    [] name = "approvers" ->
         <<Key(0, name)>> \o FlattenSeq([i \in DOMAIN p.phones |-> ApproverLines(style, p.phones[i])])
    [] name = "routing" ->
         <<Key(0, name)>> \o FlattenSeq([i \in DOMAIN p.routing |-> RoutingLines(p.routing[i])])
    [] name = "settings" -> <<Key(0, name), Key(2, "ops"), Item(4, "nobody")>>
    [] name = "wall_notify" -> <<Pair(0, name, "true")>>

Document(p, style, order) ==
  FlattenSeq([i \in DOMAIN order |-> Section(order[i], p, style)])

-----------------------------------------------------------------------------
(* The instances *)

MCRequesters == {"app", "ci", "stranger"}

MCCountries == "+1555" :> {"+1"} @@ "+4420" :> {"+4", "+44"}

MCWithPlus == "1" :> "+1" @@ "+1" :> "+1" @@ "44" :> "+44"

MCFlags == {<<>>, <<"+1">>, <<"1", "44">>, <<"+1", "">>, <<"1x">>}

PhoneLists == {<< >>, <<"+1555">>, <<"+1555", "">>, <<"+4420", "+1555">>}

MCPolicies ==
  {Nothing, [Nothing EXCEPT !.phones = <<<<"alice", <<"+1555">>>>>>]}
    \cup [sets: {<<<<"ops", <<"alice", "bob">>>>, <<"oncall", members>>>> :
                    members \in {<< >>, <<"bob">>, <<"carol", "alice">>}},
          phones: {<<<<"alice", a>>, <<"bob", b>>>> : a \in PhoneLists, b \in {<<"+1555">>, <<"+4420", "+1555">>}},
          routing: {<< >>, <<<<"app", "ops">>, <<"ci", "oncall">>>>, <<<<"ci", "nosuchset">>>>}]

\* The sections in every order, with what is not the adapter's in between.
MCOrders ==
  {<<"settings", s[1], "wall_notify", s[2], "settings", s[3]>> :
     s \in SetToSeqs({"approver_sets", "approvers", "routing"})}

Credentials == [i \in 1..3 |-> [key |-> <<"TWILIO_ACCOUNT_SID", "TWILIO_AUTH_TOKEN",
                                          "TWILIO_VERIFY_SERVICE_SID">>[i], value |-> "v"]]

Extra == {"SMS_ROUTING_CALLBACK_URL", "SMS_ROUTING_CALLBACK_SECRET", "TWILIO_AUTH_TOKEN", ""}

\* The credentials and up to two more lines: a callback, a line that empties an
\* earlier one, or one that does not parse.
MCEnvFiles ==
  {NoFile, Credentials, Tail(Credentials)}
    \cup {Credentials \o <<a, b>> : a, b \in [key: Extra, value: {"", "v"}]}

DocumentsIn(style) ==
  {[policy |-> p, lines |-> Document(p, style, order)] : p \in MCPolicies, order \in MCOrders}

BlockDocuments == DocumentsIn("block")
FlowDocuments == DocumentsIn("flow")

\* The documents in block style are ones the proofs are about.
ASSUME BlockSays == \A d \in BlockDocuments : Says(d.lines, d.policy)
=============================================================================
