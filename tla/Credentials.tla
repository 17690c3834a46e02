----------------------------- MODULE Credentials -----------------------------
(***************************************************************************)
(* The credentials of one Yandex cabinet: the operator's command            *)
(* (src/src/credentials), the renewal of the cron refresh-tokens            *)
(* (ingestion/tokens.ts, clients/yandex-direct/auth.ts) and the row they    *)
(* share (repos/CredentialRepository.ts).  A renewal reads the row, asks    *)
(* Yandex and writes the whole row back, with nothing held in between.      *)
(***************************************************************************)
EXTENDS Integers, FiniteSets

CONSTANTS Inputs,      \* what an operator may pipe in: records [form, fields, empty, login]
          YandexFields, \* the keys of yandexCredentialsSchema
          Passes,      \* renewals that may run at once, one per worker
          MaxTokens,   \* bound: answers of Yandex with a token
          MaxCommands, \* bound: commands that are given
          MaxFaults    \* bound: answers lost and writes that fail

VARIABLES row,     \* the payload that is stored, or NoRow
          code,    \* the confirmation code the client sent
          cmd,     \* the command that is running
          pass,    \* the renewals
          issued,  \* tokens Yandex gave so far
          given,   \* what an operator has stored: whose cabinet, renewable or not
          exchanged, \* an exchange was asked for with --apply
          commands, faults

credVars == <<row, code, cmd, pass, issued, given, exchanged, commands, faults>>

NoRow == [access |-> 0, refresh |-> FALSE, end |-> "never", login |-> "nobody"]
Stored == row # NoRow
Fault == faults < MaxFaults /\ faults' = faults + 1

-----------------------------------------------------------------------------
(* What is read from the pipe. *)

\* A bare line is the token; anything that begins as an object must be one.
Parsed(input) == IF input.form = "line" THEN [input EXCEPT !.fields = {"accessToken"}, !.login = "none"] ELSE input

AcceptsAny(input) == input.form # "broken"
\* Keys the schema does not know are refused, never dropped; a token may not be empty.
Accepts(input) ==
    /\ input.form # "broken"
    /\ Parsed(input).fields \subseteq YandexFields
    /\ "accessToken" \in Parsed(input).fields /\ ~input.empty

Payload(input, n) ==
    [access |-> IF "accessToken" \in Parsed(input).fields THEN n ELSE 0,
     refresh |-> "refreshToken" \in Parsed(input).fields,
     end |-> IF "expiresAt" \in Parsed(input).fields THEN "later" ELSE "never",
     login |-> Parsed(input).login]

AnswerAlone(n, renewed, base) ==
    [access |-> n, refresh |-> renewed, end |-> "later", login |-> base.login]
\* Yandex need not repeat the refresh token; what the answer lacks is taken from the base.
ToCredentials(n, renewed, base) ==
    [access |-> n, refresh |-> renewed \/ base.refresh, end |-> "later", login |-> base.login]

-----------------------------------------------------------------------------
(* The operator's command. *)

NoCmd == [pc |-> "idle", new |-> NoRow, base |-> NoRow]
Ends == cmd' = NoCmd

Give == cmd.pc = "idle" /\ commands < MaxCommands /\ commands' = commands + 1
Untouched == UNCHANGED <<row, code, pass, issued, given, faults>>

\* link, list, an unknown client or channel, and set without --apply, write nothing.
LooksOnly == Give /\ Ends /\ Untouched /\ UNCHANGED exchanged

Set(input, apply) ==
    /\ Give
    /\ issued < MaxTokens
    /\ IF Accepts(input) /\ apply
       THEN cmd' = [NoCmd EXCEPT !.pc = "save", !.new = Payload(input, issued + 1)] /\ issued' = issued + 1
       ELSE Ends /\ UNCHANGED issued
    /\ UNCHANGED <<row, code, pass, given, exchanged, faults>>

\* A dry run that tries the code out.
ExchangeAtOnce(login, apply) ==
    /\ Give
    /\ exchanged' = (exchanged \/ apply)
    /\ code' = "spent"
    /\ cmd' = NoCmd
    /\ UNCHANGED <<row, pass, issued, given, faults>>
\* The code is not tried before it is to be stored.
Exchange(login, apply) ==
    /\ Give
    /\ exchanged' = (exchanged \/ apply)
    /\ cmd' = IF apply THEN [NoCmd EXCEPT !.pc = "exchange", !.base = [NoRow EXCEPT !.login = login]] ELSE NoCmd
    /\ Untouched
\* The code is good for one exchange; the answer to it may be lost.
ExchangeCode(renewed) ==
    /\ cmd.pc = "exchange"
    /\ code' = "spent"
    /\ \/ /\ code = "fresh" /\ issued < MaxTokens
          /\ issued' = issued + 1
          /\ cmd' = [NoCmd EXCEPT !.pc = "save", !.new = ToCredentials(issued + 1, renewed, cmd.base)]
          /\ UNCHANGED faults
       \/ code = "spent" /\ Ends /\ UNCHANGED <<issued, faults>>
       \/ code = "fresh" /\ Fault /\ Ends /\ UNCHANGED issued
    /\ UNCHANGED <<row, pass, given, exchanged, commands>>

\* The row and its line in the journal are one transaction.
Save ==
    /\ cmd.pc = "save"
    /\ \/ row' = cmd.new /\ given' = given \cup {[login |-> cmd.new.login, refresh |-> cmd.new.refresh]}
          /\ UNCHANGED faults
       \/ Fault /\ UNCHANGED <<row, given>>
    /\ Ends
    /\ UNCHANGED <<code, pass, issued, exchanged, commands>>

Revoke ==
    /\ Give
    /\ row' = NoRow
    /\ Ends
    /\ UNCHANGED <<code, pass, issued, given, exchanged, faults>>

-----------------------------------------------------------------------------
(* The renewal. *)

NoPass == [pc |-> "idle", creds |-> NoRow]
PassGoes(p, pc) == pass' = [pass EXCEPT ![p].pc = pc]

\* The cabinets of clients that are active; nothing to do when there is none.
ListCredentials(p) ==
    /\ pass[p].pc = "idle" /\ Stored
    /\ PassGoes(p, "read")
    /\ UNCHANGED <<row, code, cmd, issued, given, exchanged, commands, faults>>

\* Only a token near its end that has a refresh token beside it is renewed.
ReadCredential(p) ==
    /\ pass[p].pc = "read"
    /\ pass' = [pass EXCEPT ![p] = IF Stored /\ row.end = "due" /\ row.refresh
                                   THEN [pc |-> "ask", creds |-> row] ELSE NoPass]
    /\ UNCHANGED <<row, code, cmd, issued, given, exchanged, commands, faults>>

RefreshAccess(p, renewed) ==
    /\ pass[p].pc = "ask"
    /\ \/ /\ issued < MaxTokens
          /\ issued' = issued + 1
          /\ pass' = [pass EXCEPT ![p] = [pc |-> "save", creds |-> ToCredentials(issued + 1, renewed, @.creds)]]
          /\ UNCHANGED faults
       \/ Fault /\ pass' = [pass EXCEPT ![p] = NoPass] /\ UNCHANGED issued
    /\ UNCHANGED <<row, code, cmd, given, exchanged, commands>>

StoreRenewed(p) ==
    /\ pass[p].pc = "save"
    /\ \/ row' = pass[p].creds /\ UNCHANGED faults
       \/ Fault /\ UNCHANGED row
    /\ pass' = [pass EXCEPT ![p] = NoPass]
    /\ UNCHANGED <<code, cmd, issued, given, exchanged, commands>>

\* Time passes, and the stored token comes near its end, if one is known.
ComesDue ==
    /\ row.end = "later"
    /\ row' = [row EXCEPT !.end = "due"]
    /\ UNCHANGED <<code, cmd, pass, issued, given, exchanged, commands, faults>>

Logins == {input.login : input \in Inputs}
Init ==
    /\ row = NoRow
    /\ code = "fresh"
    /\ cmd = NoCmd
    /\ pass = [p \in Passes |-> NoPass]
    /\ issued = 0
    /\ given = {}
    /\ exchanged = FALSE
    /\ commands = 0
    /\ faults = 0

Next ==
    \/ LooksOnly \/ Revoke \/ Save \/ ComesDue
    \/ \E apply \in BOOLEAN : \/ \E input \in Inputs : Set(input, apply)
                              \/ \E login \in Logins : Exchange(login, apply)
    \/ \E renewed \in BOOLEAN : \/ ExchangeCode(renewed)
                                \/ \E p \in Passes : RefreshAccess(p, renewed)
    \/ \E p \in Passes : ListCredentials(p) \/ ReadCredential(p) \/ StoreRenewed(p)

Spec == Init /\ [][Next]_credVars

-----------------------------------------------------------------------------
\* Whatever order commands and renewals write in, what is stored can be read by the
\* adapter, belongs to a cabinet an operator stored, and is renewable if he stored it so.
StoredIsUsable ==
    Stored =>
        /\ row.access # 0
        /\ \E g \in given : g.login = row.login /\ (g.refresh => row.refresh)

\* The code is for one use: nothing but an exchange that was confirmed has used it.
CodeIsKept == code = "spent" => exchanged

\* A renewal that read the row before a revocation writes it anew (docs/RUNBOOK.md:192
\* gives the command for a token that leaked and for a client who left): not true.
RevokedStaysRevoked == [][(~Stored /\ row' # NoRow) => cmd.pc = "save"]_credVars
=============================================================================
