------------------------------ MODULE VkTokens -------------------------------
(***************************************************************************)
(* The access tokens of one VK cabinet (src/src/clients/vk-ads: auth.ts and *)
(* the execution of a request in http.ts).  Every process keeps the token   *)
(* in memory and shares one minting among its requests; the credentials of  *)
(* the cabinet carry it from one process to another.  VK lets a user have   *)
(* few live tokens, so a minting deletes the token it knows of first, and   *)
(* at the limit all of them.                                                *)
(***************************************************************************)
EXTENDS Integers, FiniteSets, Sequences

CONSTANTS Processes,
          Requests,           \* each is <<process, number>>
          Limit,              \* VK_MAX_SIMULTANEOUS_TOKENS
          Ttl, Margin,        \* life of a token, VK_REFRESH_MARGIN_MS
          Remint,             \* VK_MIN_REMINT_INTERVAL_MS
          MaxTokens,          \* bound: tokens minted
          LastTick,           \* bound: the clock
          MaxFaults           \* bound: failures, restarts and revocations from outside

VARIABLES clock,
          tokens,    \* what VK knows: [by, born, end, died] in the order of minting
          row,       \* the token in the credentials that are stored
          ctx,       \* the credentials a process's requests are made with
          cache,     \* tokenCache of each process
          mint,      \* inflight of each process
          req,       \* the requests
          faults

vkVars == <<clock, tokens, row, ctx, cache, mint, req, faults>>

NoToken == 0
NoCache == [token |-> NoToken, refreshAt |-> 0, mintedAt |-> 0]
NoMint == [pc |-> "none", old |-> NoToken, token |-> NoToken, replaced |-> FALSE]
Idle == [pc |-> "idle", token |-> NoToken, again |-> FALSE]

Fault == faults < MaxFaults /\ faults' = faults + 1
Lower(a, b) == IF a < b THEN a ELSE b
RefreshMargin == Lower(Margin, Ttl \div 2)
ExpiresAt(t) == tokens[t].born + Ttl
Live(t) == t # NoToken /\ tokens[t].end = "live" /\ clock < ExpiresAt(t)
LiveTokens == {t \in DOMAIN tokens : Live(t)}
Ended(ts, how) == [t \in DOMAIN tokens |->
                     IF t \in ts /\ Live(t) THEN [tokens[t] EXCEPT !.end = how, !.died = clock] ELSE tokens[t]]

-----------------------------------------------------------------------------
(* A request. *)

\* A job comes with the credentials as stored now, or with those it read before; a
\* request that found no token may be tried again.
Begin(r) ==
    /\ req[r].pc \in {"idle", "error"}
    /\ req' = [req EXCEPT ![r] = [Idle EXCEPT !.pc = "get"]]
    /\ \/ UNCHANGED <<ctx, mint>>
       \/ /\ ctx' = [ctx EXCEPT ![r[1]] = row]
          /\ mint' = [mint EXCEPT ![r[1]].replaced = @ \/ mint[r[1]].pc # "none"]
    /\ UNCHANGED <<clock, tokens, row, cache, faults>>

Holds(r, t) == req' = [req EXCEPT ![r].pc = "send", ![r].token = t]
\* The minting that is under way, or a new one.
JoinMint(r, pc) ==
    /\ req' = [req EXCEPT ![r].pc = pc]
    /\ mint' = IF mint[r[1]].pc # "none" THEN mint
               ELSE [mint EXCEPT ![r[1]] = [NoMint EXCEPT !.pc = "delete", !.old = ctx[r[1]]]]

GetToken(r) ==
    LET p == r[1]
        cached == cache[p]
    IN  /\ req[r].pc = "get"
        /\ CASE cached.token # NoToken /\ clock < cached.refreshAt ->
                  Holds(r, cached.token) /\ UNCHANGED <<cache, mint>>
             [] ~(cached.token # NoToken /\ clock < cached.refreshAt)
                /\ ctx[p] # NoToken /\ ExpiresAt(ctx[p]) - clock > Margin ->
                  /\ cache' = [cache EXCEPT ![p] = [token |-> ctx[p], mintedAt |-> -Remint,
                                                    refreshAt |-> ExpiresAt(ctx[p]) - Margin]]
                  /\ Holds(r, ctx[p])
                  /\ UNCHANGED mint
             [] OTHER -> JoinMint(r, "waits") /\ UNCHANGED cache
        /\ UNCHANGED <<clock, tokens, row, ctx, faults>>

\* The queue, the governor and the network lie before this step.
Send(r) ==
    /\ req[r].pc = "send"
    /\ req' = [req EXCEPT ![r].pc = IF Live(req[r].token) THEN "done"
                                    ELSE IF req[r].again THEN "auth" ELSE "force"]
    /\ UNCHANGED <<clock, tokens, row, ctx, cache, mint, faults>>

RemintAtOnce(r) ==
    /\ req[r].pc = "force"
    /\ cache' = [cache EXCEPT ![r[1]] = NoCache]
    /\ JoinMint(r, "waits again")
    /\ UNCHANGED <<clock, tokens, row, ctx, faults>>
\* A token that was minted a moment ago is tried before a new one is asked for.
ForceRefresh(r) ==
    LET cached == cache[r[1]]
    IN  /\ req[r].pc = "force"
        /\ IF cached.token # NoToken /\ clock - cached.mintedAt < Remint
           THEN req' = [req EXCEPT ![r].pc = "get", ![r].again = TRUE] /\ UNCHANGED <<cache, mint>>
           ELSE cache' = [cache EXCEPT ![r[1]] = NoCache] /\ JoinMint(r, "waits again")
        /\ UNCHANGED <<clock, tokens, row, ctx, faults>>

-----------------------------------------------------------------------------
(* The minting of a process. *)

Waiting(p) == {r \in Requests : r[1] = p /\ req[r].pc \in {"waits", "waits again"}}
MintAt(p, pc) == mint[p].pc = pc
MintGoes(p, pc) == mint' = [mint EXCEPT ![p].pc = pc]
MintFailed(p) ==
    /\ mint' = [mint EXCEPT ![p] = NoMint]
    /\ req' = [r \in Requests |-> IF r \in Waiting(p) THEN [req[r] EXCEPT !.pc = "error"] ELSE req[r]]

\* A deletion that fails does not stop the minting.
DeleteKnown(p) ==
    /\ MintAt(p, "delete")
    /\ MintGoes(p, "ask")
    /\ \/ tokens' = Ended({mint[p].old}, p) /\ UNCHANGED faults
       \/ mint[p].old # NoToken /\ Fault /\ UNCHANGED tokens
    /\ UNCHANGED <<clock, row, ctx, cache, req>>

Minted(by) == Append(tokens, [by |-> by, born |-> clock, end |-> "live", died |-> 0])
Ask(p) ==
    /\ MintAt(p, "ask") \/ MintAt(p, "ask again")
    /\ Cardinality(LiveTokens) < Limit /\ Len(tokens) < MaxTokens
    /\ tokens' = Minted(p)
    /\ mint' = [mint EXCEPT ![p].pc = "store", ![p].token = Len(tokens) + 1]
    /\ UNCHANGED <<clock, row, ctx, cache, req, faults>>

AtTheLimit(p) ==
    /\ Cardinality(LiveTokens) >= Limit
    /\ \/ MintAt(p, "ask") /\ MintGoes(p, "release") /\ UNCHANGED req
       \/ MintAt(p, "ask again") /\ MintFailed(p)
    /\ UNCHANGED <<clock, tokens, row, ctx, cache, faults>>

Release(p) ==
    /\ MintAt(p, "release")
    /\ MintGoes(p, "ask again")
    /\ \/ tokens' = Ended(LiveTokens, "limit") /\ UNCHANGED faults
       \/ Fault /\ UNCHANGED tokens
    /\ UNCHANGED <<clock, row, ctx, cache, req>>

\* VK refuses, or its answer is lost with the token in it.
AskFails(p) ==
    /\ MintAt(p, "ask") \/ MintAt(p, "ask again")
    /\ Fault
    /\ MintFailed(p)
    /\ \/ UNCHANGED tokens
       \/ /\ Cardinality(LiveTokens) < Limit /\ Len(tokens) < MaxTokens
          /\ tokens' = Minted(p)
    /\ UNCHANGED <<clock, row, ctx, cache>>

\* The memory of the process, and the credentials the minting was asked with.
Store(p) ==
    LET t == mint[p].token
    IN  /\ MintAt(p, "store")
        /\ cache' = [cache EXCEPT ![p] = [token |-> t, mintedAt |-> clock,
                                          refreshAt |-> ExpiresAt(t) - RefreshMargin]]
        /\ ctx' = IF mint[p].replaced THEN ctx ELSE [ctx EXCEPT ![p] = t]
        /\ MintGoes(p, "save")
        /\ UNCHANGED <<clock, tokens, row, req, faults>>

\* The credentials that are stored; requests go on when this is over, well or not.
Save(p) ==
    /\ MintAt(p, "save")
    /\ \/ row' = mint[p].token /\ UNCHANGED faults
       \/ Fault /\ UNCHANGED row
    /\ mint' = [mint EXCEPT ![p] = NoMint]
    /\ req' = [r \in Requests |->
                 IF r \notin Waiting(p) THEN req[r]
                 ELSE IF req[r].pc = "waits" THEN [req[r] EXCEPT !.pc = "send", !.token = mint[p].token]
                 ELSE [req[r] EXCEPT !.pc = "get", !.again = TRUE]]
    /\ UNCHANGED <<clock, tokens, ctx, cache>>

-----------------------------------------------------------------------------
\* revokeVkAccess and the user's own hand; a process that is started anew.
RevokedOutside ==
    /\ Fault
    /\ \E t \in LiveTokens : tokens' = Ended({t}, "outside")
    /\ UNCHANGED <<clock, row, ctx, cache, mint, req>>

Restart(p) ==
    /\ Fault
    /\ ctx' = [ctx EXCEPT ![p] = row]
    /\ cache' = [cache EXCEPT ![p] = NoCache]
    /\ mint' = [mint EXCEPT ![p] = NoMint]
    /\ req' = [r \in Requests |-> IF r[1] = p THEN Idle ELSE req[r]]
    /\ UNCHANGED <<clock, tokens, row>>

Tick ==
    /\ clock < LastTick
    /\ clock' = clock + 1
    /\ UNCHANGED <<tokens, row, ctx, cache, mint, req, faults>>

\* The cabinet was used before: a token is stored and the processes have just begun.
Init ==
    /\ clock = 0
    /\ tokens = <<[by |-> "before", born |-> 0, end |-> "live", died |-> 0]>>
    /\ row = 1
    /\ ctx = [p \in Processes |-> row]
    /\ cache = [p \in Processes |-> NoCache]
    /\ mint = [p \in Processes |-> NoMint]
    /\ req = [r \in Requests |-> Idle]
    /\ faults = 0

Next ==
    \/ \E r \in Requests : Begin(r) \/ GetToken(r) \/ Send(r) \/ ForceRefresh(r)
    \/ \E p \in Processes : \/ DeleteKnown(p) \/ Ask(p) \/ AtTheLimit(p) \/ Release(p)
                            \/ AskFails(p) \/ Store(p) \/ Save(p) \/ Restart(p)
    \/ RevokedOutside \/ Tick

Spec == Init /\ [][Next]_vkVars

-----------------------------------------------------------------------------
\* A request whose second token is refused as well was not failed by a refresh of its own
\* process: that deletes a token of its own only after the interval in which a fresh
\* token is handed out instead of a newer one.  (A request that is held up longer than
\* the interval between getting its token and sending it may be failed so.)
OwnRefreshIsHarmless ==
    \A r \in Requests :
        (req[r].pc = "auth" /\ req[r].token # NoToken) =>
            LET t == tokens[req[r].token]
            IN  (t.end = r[1] /\ t.by = r[1]) => t.died - t.born >= Remint
=============================================================================
