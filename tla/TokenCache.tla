----------------------------- MODULE TokenCache -----------------------------
(***************************************************************************)
(* The OIDC tokens that HTTP backends are called with: Provider of         *)
(* internal/oidc/provider.go and oidcRoundTripper of                       *)
(* mcp/http_transport_client.go.  One mutex is held while a token is       *)
(* looked up and, if it has to be, fetched, for whatever audience.         *)
(***************************************************************************)
EXTENDS Naturals

CONSTANTS Audiences,
          Senders,      \* backend requests that need a token, each sent once
          Margin,       \* tokenRefreshMargin
          Unknown,      \* lifetime given to a token whose expiry does not parse
          FetchTime,    \* bound: how long a fetch takes, its timeout included
          MaxTokenTime  \* bound: the clock stops here

Unlocked == "free"

ASSUME TokenAssumption ==
  /\ Audiences # {} /\ Unlocked \notin Senders
  /\ Margin \in Nat /\ Unknown \in Nat /\ FetchTime \in Nat /\ MaxTokenTime \in Nat

VARIABLES time,
          held,    \* p.mu
          tokens,  \* p.cache: of each audience the expiry, 0 when none
          send     \* of each sender: where RoundTrip is

tokenVars == <<time, held, tokens, send>>

Resting == [pc |-> "idle", aud |-> CHOOSE a \in Audiences : TRUE, since |-> 0]
Lifetimes == {Margin, Margin + 2, Unknown}

TokenInit ==
  /\ time = 1
  /\ held = Unlocked
  /\ tokens = [a \in Audiences |-> 0]
  /\ send = [s \in Senders |-> Resting]

IsValid(expiresAt) == time + Margin < expiresAt

Start(s, a) ==
  /\ send[s].pc = "idle"
  /\ send' = [send EXCEPT ![s] = [pc |-> "lock", aud |-> a, since |-> 0]]
  /\ UNCHANGED <<time, held, tokens>>

\* A definition named X_Bug is X with one plausible bug; no specification uses it.
MayEnter_Unlocked(owner) == TRUE
MayEnter(owner) == owner = Unlocked

Lock(s) ==
  /\ send[s].pc = "lock" /\ MayEnter(held)
  /\ IF IsValid(tokens[send[s].aud])
       THEN /\ send' = [send EXCEPT ![s].pc = "sent"]
            /\ UNCHANGED held
       ELSE /\ send' = [send EXCEPT ![s].pc = "fetch", ![s].since = time]
            /\ held' = s
  /\ UNCHANGED <<time, tokens>>

\* An expiry that cannot be read is taken to be five minutes off; a token is
\* cached and used however short its life.
Fetched(s, life) ==
  /\ send[s].pc = "fetch"
  /\ tokens' = [tokens EXCEPT ![send[s].aud] = time + life]
  /\ held' = Unlocked
  /\ send' = [send EXCEPT ![s].pc = "sent", ![s].since = 0]
  /\ UNCHANGED time

\* No answer, another status, a body without a token: RoundTrip returns the
\* error; the deferred Unlock runs all the same.
FetchFails(s) ==
  /\ send[s].pc = "fetch"
  /\ held' = Unlocked
  /\ send' = [send EXCEPT ![s].pc = "failed", ![s].since = 0]
  /\ UNCHANGED <<time, tokens>>

TokenTick ==
  /\ time < MaxTokenTime
  /\ \A s \in Senders : send[s].pc = "fetch" => time < send[s].since + FetchTime
  /\ time' = time + 1
  /\ UNCHANGED <<held, tokens, send>>

FetchEnds(s) == FetchFails(s) \/ \E l \in Lifetimes : Fetched(s, l)

TokenNext ==
  \/ TokenTick
  \/ \E s \in Senders : Lock(s) \/ FetchEnds(s) \/ \E a \in Audiences : Start(s, a)

TokenSpec == TokenInit /\ [][TokenNext]_tokenVars

-----------------------------------------------------------------------------
(* Properties.                                                             *)

\* A token is replaced only when it is about to expire: callers that waited
\* while another fetched use what it fetched, however many they are (Token).
NoFreshTokenReplaced ==
  [][\A a \in Audiences : tokens'[a] # tokens[a] => ~IsValid(tokens[a])]_tokenVars
=============================================================================
