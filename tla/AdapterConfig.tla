--------------------------- MODULE AdapterConfig ----------------------------
(***************************************************************************)
(* Start-up of the Twilio adapter (src/cmd/request-sudo-twilio-adapter)    *)
(* and whom it texts: the --allowed-country-codes flag, twilio.env and     *)
(* approvers.yaml, which parseApprovers reads line by line with a hand     *)
(* written state machine.                                                  *)
(*                                                                         *)
(* A policy is what the administrator means; a document is a policy        *)
(* together with the lines it was written down as.  A line is its indent   *)
(* and one of three shapes: "key:", "key: value" and "- value".  Blank     *)
(* lines and comments are removed before anything is decided and are left  *)
(* out, as are quotes, which the reader trims off values and not off keys. *)
(***************************************************************************)
EXTENDS Naturals, SequencesExt

CONSTANTS Documents,   \* what approvers.yaml may hold: a policy and its lines
          Flags,       \* lists of tokens given to --allowed-country-codes
          WithPlus,    \* well-formed token -> the prefix it stands for
          Countries,   \* phone -> the prefixes it begins with
          EnvFiles,    \* contents of twilio.env, or NoFile
          NoFile,
          Requesters   \* requesters as the tailer names them

Key(n, k) == [indent |-> n, form |-> "key", key |-> k, value |-> ""]
Pair(n, k, v) == [indent |-> n, form |-> "pair", key |-> k, value |-> v]
Item(n, v) == [indent |-> n, form |-> "item", key |-> "", value |-> v]

\* A policy lists sets with their members, approvers with their phones, and
\* requesters with their set.
Lists == Seq(STRING \X Seq(STRING))
Policies == [sets: Lists, phones: Lists, routing: Seq(STRING \X STRING)]

Lines == [indent: Nat, form: {"key", "pair", "item"}, key: STRING, value: STRING]

ASSUME ConfigAssumption ==
  /\ \A d \in Documents :
       /\ d.lines \in Seq(Lines)
       /\ \A i \in 1..Len(d.lines) : d.lines[i].form = "key" => d.lines[i].value = ""
       /\ d.policy \in Policies
  /\ \A tokens \in Flags : tokens \in Seq(STRING)
  /\ \A file \in EnvFiles : file = NoFile \/ file \in Seq([key: STRING, value: STRING])

VARIABLES step,      \* of main: "codes", "env", "approvers", "lines", "ready", "fatal"
          flag,      \* the flag's tokens
          allowed,   \* allowedCodes
          env,       \* the lines of twilio.env
          want,      \* the policy the document was written from
          doc,       \* the lines of approvers.yaml
          pos,       \* lines scanned so far
          section,   \* parseApprovers: section
          current,   \* currentSetName, currentApprover or currentRequester
          inPhones,  \* inPhones
          policy     \* the ApproversPolicy that is filled in

input == <<flag, env, want, doc>>
parser == <<pos, section, current, inPhones, policy>>
vars == <<step, flag, allowed, env, want, doc, pos, section, current, inPhones, policy>>

Nothing == [sets |-> << >>, phones |-> << >>, routing |-> << >>]

Init ==
  /\ step = "codes"
  /\ flag = << >>
  /\ allowed = {}
  /\ env = NoFile
  /\ want = Nothing
  /\ doc = << >>
  /\ pos = 0
  /\ section = "none"
  /\ current = ""
  /\ inPhones = FALSE
  /\ policy = Nothing

-----------------------------------------------------------------------------
(* main, up to the tailer *)

Fatal == step' = "fatal" /\ UNCHANGED <<allowed, parser>>

\* ParseAllowedCountryCodes: every token must be digits, with or without "+".
ParseAllowedCountryCodes ==
  /\ step = "codes"
  /\ \E tokens \in Flags :
       /\ flag' = tokens
       /\ IF tokens # << >> /\ ToSet(tokens) \subseteq DOMAIN WithPlus
          THEN /\ allowed' = {WithPlus[t] : t \in ToSet(tokens)}
               /\ step' = "env"
               /\ UNCHANGED parser
          ELSE Fatal
  /\ UNCHANGED <<env, want, doc>>

\* kv[key] of parseEnvFile's map: later lines win, unset keys are "".
Value(lines, key) ==
  LET kv[i \in 0..Len(lines)] ==
        IF i = 0 THEN "" ELSE IF lines[i].key = key THEN lines[i].value ELSE kv[i-1]
  IN kv[Len(lines)]

Required == {"TWILIO_ACCOUNT_SID", "TWILIO_AUTH_TOKEN", "TWILIO_VERIFY_SERVICE_SID"}

\* Mutant of EnvError: a callback without a secret is let through.
EnvErrorRequiredOnly(lines) ==
  \/ \E i \in DOMAIN lines : lines[i].key = ""
  \/ \E key \in Required : Value(lines, key) = ""

\* A line without a key is an error; so is a missing key, or a callback without
\* its secret.
EnvError(lines) ==
  \/ \E i \in DOMAIN lines : lines[i].key = ""
  \/ \E key \in Required : Value(lines, key) = ""
  \/ /\ Value(lines, "SMS_ROUTING_CALLBACK_URL") # ""
     /\ Value(lines, "SMS_ROUTING_CALLBACK_SECRET") = ""

LoadTwilioEnv ==
  /\ step = "env"
  /\ \E file \in EnvFiles :
       /\ env' = file
       /\ IF file = NoFile THEN Fatal
          ELSE IF EnvError(file) THEN Fatal
          ELSE step' = "approvers" /\ UNCHANGED <<allowed, parser>>
  /\ UNCHANGED <<flag, want, doc>>

\* The file cannot be opened, or not read to its end (scanner.Err, a line over
\* 1 MiB): main gives up, and nobody sees what was parsed before that.
LoadApprovers ==
  /\ step = "approvers"
  /\ \/ \E d \in Documents :
          /\ want' = d.policy
          /\ doc' = d.lines
          /\ step' = "lines"
          /\ UNCHANGED <<allowed, parser>>
     \/ Fatal /\ UNCHANGED <<want, doc>>
  /\ UNCHANGED <<flag, env>>

-----------------------------------------------------------------------------
(* parseApprovers, one action per branch *)

\* The sections the adapter reads.
Parts == {"approver_sets", "approvers", "routing"}

line == doc[pos + 1]

Scan ==
  /\ step = "lines"
  /\ pos < Len(doc)
  /\ pos' = pos + 1
  /\ UNCHANGED <<input, step, allowed>>

\* Lines at the left margin with a colon.
TopLevel == line.indent = 0 /\ line.form # "item"

Header ==
  /\ Scan
  /\ TopLevel /\ line.form = "key"
  /\ section' = IF line.key \in Parts THEN line.key ELSE "none"
  /\ current' = ""
  /\ inPhones' = FALSE
  /\ UNCHANGED policy

Scalar ==
  /\ Scan
  /\ TopLevel /\ line.form = "pair"
  /\ section' = "none"
  /\ UNCHANGED <<current, inPhones, policy>>

\* m[k] = v for a Go map.
Put(m, k, v) == [x \in DOMAIN m \cup {k} |-> IF x = k THEN v ELSE m[x]]

\* "name:" two spaces in opens the entry of a set, an approver or a requester.
Entry == line.indent = 2 /\ line.form = "key"

Listed(n) == line.indent >= n /\ line.form = "item" /\ current # ""

Within(name) ==
  /\ Scan
  /\ section = name
  /\ ~TopLevel
  /\ current' = IF Entry THEN line.key ELSE current
  /\ UNCHANGED section

InSets ==
  /\ Within("approver_sets")
  /\ policy' = CASE Entry     -> [policy EXCEPT !.sets = Put(@, line.key, << >>)]
                 [] Listed(4) -> [policy EXCEPT !.sets[current] = Append(@, line.value)]
                 [] OTHER     -> policy
  /\ UNCHANGED inPhones

\* Mutant of PhonesOpen: other attributes do not close the list of phones.
PhonesOpenUntilEntry == ~Entry /\ (inPhones \/ line = Key(4, "phones"))

\* "phones:" opens the list; any other line at indent 4 closes it.
PhonesOpen == ~Entry /\ (line = Key(4, "phones") \/ (inPhones /\ line.indent # 4))

InApprovers ==
  /\ Within("approvers")
  /\ policy' = CASE Entry -> [policy EXCEPT !.phones = Put(@, line.key, << >>)]
                 [] inPhones /\ Listed(6) ->
                      [policy EXCEPT !.phones[current] = Append(@, line.value)]
                 [] OTHER -> policy
  /\ inPhones' = PhonesOpen

InRouting ==
  /\ Within("routing")
  /\ policy' = IF line.indent >= 4 /\ current # "" /\ line.form # "item" /\ line.key = "approver_set"
               THEN [policy EXCEPT !.routing = Put(@, current, line.value)]
               ELSE policy
  /\ UNCHANGED inPhones

\* Lines of no section of the adapter's.
Elsewhere ==
  /\ Scan
  /\ section = "none" /\ ~TopLevel
  /\ UNCHANGED <<section, current, inPhones, policy>>

\* parseApprovers after its last line; main goes on to the tailer and the webhook.
EndOfFile ==
  /\ step = "lines"
  /\ pos = Len(doc)
  /\ step' = IF DOMAIN policy.sets = {} /\ DOMAIN policy.routing = {} THEN "fatal" ELSE "ready"
  /\ UNCHANGED <<input, allowed, parser>>

Next ==
  \/ ParseAllowedCountryCodes \/ LoadTwilioEnv \/ LoadApprovers
  \/ Header \/ Scalar \/ InSets \/ InApprovers \/ InRouting \/ Elsewhere
  \/ EndOfFile

Spec == Init /\ [][Next]_vars

-----------------------------------------------------------------------------
(* Whom handlePending texts *)

Get(m, k) == IF k \in DOMAIN m THEN m[k] ELSE << >>

\* The inner loop: the phones that are new are appended to out.
AddNew(out, phones) ==
  LET added[i \in 0..Len(phones)] ==
        IF i = 0 THEN out
        ELSE IF phones[i] \in ToSet(added[i-1]) \cup {""} THEN added[i-1]
        ELSE Append(added[i-1], phones[i])
  IN added[Len(phones)]

LookupRecipients(requester) ==
  LET members == IF requester \in DOMAIN policy.routing
                 THEN Get(policy.sets, policy.routing[requester]) ELSE << >>
      out[i \in 0..Len(members)] ==
        IF i = 0 THEN << >> ELSE AddNew(out[i-1], Get(policy.phones, members[i]))
  IN out[Len(members)]

\* Whatever is not a phone begins with no prefix.
IsAllowedCountry(phone) ==
  phone \in DOMAIN Countries /\ Countries[phone] \cap allowed # {}

\* The recipients that get past the country guard of handlePending.
Texted(requester) == {p \in ToSet(LookupRecipients(requester)) : IsAllowedCountry(p)}

-----------------------------------------------------------------------------
(* Properties *)

\* What a document means, by its indentation.  Line h heads line i: i is in the
\* block indented below h.
Heads(d, h, i) == h < i /\ \A m \in h+1..i : d[m].indent > d[h].indent

InPart(d, i, part) == \E s \in 1..i-1 : d[s] = Key(0, part) /\ Heads(d, s, i)

\* Line h opens an entry of a section.
EntryAt(d, h, part) == d[h].indent = 2 /\ d[h].form = "key" /\ InPart(d, h, part)

\* Line i lists a member of the set that line h opens, a phone of the approver,
\* or the set of the requester.
MemberAt(d, i, h) ==
  /\ d[i].form = "item" /\ d[i].indent = 4
  /\ Heads(d, h, i) /\ EntryAt(d, h, "approver_sets")

PhoneAt(d, i, h) ==
  /\ d[i].form = "item" /\ d[i].indent = 6
  /\ \E g \in h+1..i-1 : d[g] = Key(4, "phones") /\ Heads(d, g, i)
  /\ Heads(d, h, i) /\ EntryAt(d, h, "approvers")

RouteAt(d, i, h) ==
  /\ d[i].form # "item" /\ d[i].indent = 4 /\ d[i].key = "approver_set"
  /\ Heads(d, h, i) /\ EntryAt(d, h, "routing")

\* The two-space pattern that LoadApprovers is written for.
Layout(d) ==
  \A i \in 1..Len(d) :
     /\ d[i].indent \in {0, 2, 4, 6}
     /\ d[i].indent = 0 => d[i].form # "item"
     /\ \A part \in Parts : InPart(d, i, part) /\ d[i].indent = 2 =>
           d[i].form = "key" /\ d[i].key # ""
     /\ InPart(d, i, "approver_sets") /\ d[i].form = "item" => d[i].indent = 4
     /\ InPart(d, i, "routing") /\ d[i].key = "approver_set" => d[i].indent # 6

\* No name has two entries in a section, and no requester two sets.
NoneTwice(d) ==
  \A i, j \in 1..Len(d) :
     /\ \A part \in Parts :
           EntryAt(d, i, part) /\ EntryAt(d, j, part) /\ d[i].key = d[j].key => i = j
     /\ \A h \in 1..Len(d) : RouteAt(d, i, h) /\ RouteAt(d, j, h) => i = j

\* Lists with their names, as pairs.
Meant(lists) == UNION {{l[1]} \X ToSet(l[2]) : l \in ToSet(lists)}

\* Lines d, read as YAML, say policy p.
Says(d, p) ==
  LET pairs == (1..Len(d)) \X (1..Len(d))
      said(x) == <<d[x[2]].key, d[x[1]].value>>
  IN /\ Layout(d) /\ NoneTwice(d)
     /\ {d[h].key : h \in {h \in 1..Len(d) : EntryAt(d, h, "approver_sets")}}
          = {l[1] : l \in ToSet(p.sets)}
     /\ {said(x) : x \in {x \in pairs : MemberAt(d, x[1], x[2])}} = Meant(p.sets)
     /\ {said(x) : x \in {x \in pairs : PhoneAt(d, x[1], x[2])}} = Meant(p.phones)
     /\ {said(x) : x \in {x \in pairs : RouteAt(d, x[1], x[2])}} = ToSet(p.routing)

\* The phones of the approvers in the requester's set, by the policy's meaning.
Wanted(requester) ==
  {x[2] : x \in {x \in Meant(want.phones) :
      \E m \in Meant(want.sets) : m[2] = x[1] /\ <<requester, m[1]>> \in ToSet(want.routing)}}
    \ {""}

\* Whatever the order of the sections and whatever else the file says, the
\* recipients of a request are the phones of its approver set, each once, and the
\* ones texted are those of an allowed country (parseApprovers, LookupRecipients,
\* IsAllowedCountry; twilio-setup.md: "A submitted request triggers an SMS").
RecipientsRight ==
  step = "ready" => \A q \in Requesters :
     LET recipients == LookupRecipients(q)
     IN /\ IsInjective(recipients)
        /\ ToSet(recipients) = Wanted(q)
        /\ Texted(q) = {p \in Wanted(q) \cap DOMAIN Countries :
                          \E t \in ToSet(flag) : WithPlus[t] \in Countries[p]}

\* Key is set to something in the end: on the last line that assigns it.
Assigned(key) ==
  \E i \in DOMAIN env : /\ env[i].key = key /\ env[i].value # ""
                        /\ \A j \in DOMAIN env : j > i => env[j].key # key

\* The adapter runs only with credentials it can use and with a routing callback
\* only if it is authenticated; and no document with a set or a route in it keeps
\* it from starting (LoadTwilioEnv, parseApprovers, main).
StartsIfConfigured ==
  LET credentials == /\ env # NoFile
                     /\ \A key \in Required : Assigned(key)
                     /\ Assigned("SMS_ROUTING_CALLBACK_URL") => Assigned("SMS_ROUTING_CALLBACK_SECRET")
  IN /\ step = "ready" => credentials
     /\ step = "fatal" /\ doc # << >> => want.sets = << >> /\ want.routing = << >>
=============================================================================
