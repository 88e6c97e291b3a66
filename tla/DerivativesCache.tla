-------------------------- MODULE DerivativesCache --------------------------
(***************************************************************************)
(* The raw derivatives evidence of an analysis (derivatives_intel/         *)
(* runtime.py): a cache of one entry per provider and symbol, looked up    *)
(* before and after the stripe lock of the symbol is taken, a registry of  *)
(* instruments per provider, and the requests that fill both until the     *)
(* start deadline of new calls has passed.                                 *)
(*                                                                         *)
(* A bundle is known by the instant its entry was put: payloads, their     *)
(* statuses and their reasons are left out, and so an entry that says      *)
(* that a provider is unavailable is an entry like any other.  A lookup    *)
(* and the reading of the clock before it are one step.                    *)
(***************************************************************************)
EXTENDS Integers, SequencesExt

CONSTANTS
    Callers,        \* threads of analyses, one call each
    Symbols,
    Policies,       \* the tuples of providers that a call may ask for
    Stripes,        \* _LOCK_STRIPES
    StripeOf,       \* _stripe_index
    MaxEntries,     \* SYMBOL_CACHE_MAX_ENTRIES
    TTL,            \* SYMBOL_CACHE_TTL_SECONDS
    RegistryTTL,    \* REGISTRY_CACHE_TTL_SECONDS
    StartBudget,    \* NEW_CALL_START_DEADLINE_SECONDS
    MaxTime,        \* bound on the clock
    Nobody, NoTime

Providers == UNION {ToSet(p) : p \in Policies}

ASSUME CacheAssumption ==
    /\ Policies # {} /\ \A p \in Policies : p \in Seq(Providers) /\ IsInjective(p) /\ p # <<>>
    /\ StripeOf \in [Symbols -> Stripes]
    /\ MaxEntries \in Nat \ {0} /\ TTL \in Nat \ {0} /\ RegistryTTL \in Nat \ {0}
    /\ StartBudget \in Nat /\ MaxTime \in Nat
    /\ Nobody \notin Callers /\ NoTime \notin 0 .. MaxTime

VARIABLES
    phase,      \* phase[c]: where the call is
    symbol,     \* symbol[c]: the symbol it asks for
    policy,     \* policy[c]: the providers it asks for
    parts,      \* parts[c]: when each part of its bundle was put, or NoTime
    looked,     \* looked[c]: the instant of its last lookup
    start,      \* start[c]: when its budget began
    todo,       \* todo[c]: the providers still to be fetched
    holder,     \* holder[l]: who holds the stripe l
    cache,      \* _SYMBOL_CACHE, least recently used first
    registry,   \* registry[p]: when _REGISTRY_CACHE[p] was put, or NoTime
    clock       \* the monotonic clock

callVars == <<phase, symbol, policy, parts, looked, start, todo>>
cacheVars == <<cache, registry>>
vars == <<callVars, holder, cacheVars, clock>>

-----------------------------------------------------------------------------
Entry == [provider : Providers, symbol : Symbols, put : 0 .. MaxTime]

Requesting == {"registry", "funding", "interest"}
Fetching == Requesting \cup {"next", "resolve", "funded", "put"}
Phases == Fetching \cup {"idle", "stripe", "taken", "returned", "raised"}

Goto(c, next) == phase' = [phase EXCEPT ![c] = next]
Stripe(c) == StripeOf[symbol[c]]

NoParts == [p \in Providers |-> NoTime]

\* An entry expires TTL after its put; _purge_expired drops it from there on.
Live(put, now) == now < put + TTL

\* The elements of a sequence that are in a set, in their order.
Only(s, T) ==
    LET take[n \in 0 .. Len(s)] ==
            IF n = 0 THEN <<>>
            ELSE IF s[n] \in T THEN Append(take[n - 1], s[n]) ELSE take[n - 1]
    IN  take[Len(s)]

Purged(entries, now) == Only(entries, {e \in ToSet(entries) : Live(e.put, now)})
KeyIs(e, p, s) == e.provider = p /\ e.symbol = s
Find(entries, p, s) == {e \in ToSet(entries) : KeyIs(e, p, s)}
Without(entries, p, s) ==
    IF Find(entries, p, s) = {} THEN entries
    ELSE Only(entries, ToSet(entries) \ Find(entries, p, s))

\* move_to_end, of an entry that may not be there.
MovedToEnd(entries, p, s) ==
    IF Find(entries, p, s) = {} THEN entries
    ELSE LET i == CHOOSE i \in DOMAIN entries : KeyIs(entries[i], p, s)
         IN  Append(RemoveAt(entries, i), entries[i])

\* The entries of a symbol for the providers of a policy are moved to the end, in
\* the order of the policy.
Touched(entries, s, providers) ==
    LET touch[n \in 0 .. Len(providers)] ==
            IF n = 0 THEN entries ELSE MovedToEnd(touch[n - 1], providers[n], s)
    IN  touch[Len(providers)]

\* _cached_providers: what a lookup finds.
Found(entries, s, providers) ==
    [p \in Providers |->
        IF p \in ToSet(providers) /\ Find(entries, p, s) # {}
        THEN (CHOOSE e \in Find(entries, p, s) : TRUE).put ELSE NoTime]

Missing(c) == Only(policy[c], {p \in Providers : parts'[c][p] = NoTime})

-----------------------------------------------------------------------------
Init ==
    /\ phase = [c \in Callers |-> "idle"]
    /\ symbol \in [Callers -> Symbols]
    /\ policy \in [Callers -> Policies]
    /\ parts = [c \in Callers |-> NoParts]
    /\ looked = [c \in Callers |-> 0]
    /\ start = [c \in Callers |-> 0]
    /\ todo = [c \in Callers |-> <<>>]
    /\ holder = [l \in Stripes |-> Nobody]
    /\ cache = <<>>
    /\ registry = [p \in Providers |-> NoTime]
    /\ clock = 0

LookupAt(c, now) ==
    LET kept == Purged(cache, now)
    IN  /\ looked' = [looked EXCEPT ![c] = clock]
        /\ parts' = [parts EXCEPT ![c] = Found(kept, symbol[c], policy[c])]
        /\ cache' = Touched(kept, symbol[c], policy[c])

\* The first lookup, without the stripe.
Look(c) ==
    /\ phase[c] = "idle"
    /\ LookupAt(c, clock)
    /\ Goto(c, IF Missing(c) = <<>> THEN "returned" ELSE "stripe")
    /\ UNCHANGED <<symbol, policy, start, todo, holder, registry, clock>>

TakeStripe(c) ==
    /\ phase[c] = "stripe"
    /\ holder[Stripe(c)] = Nobody
    /\ holder' = [holder EXCEPT ![Stripe(c)] = c]
    /\ Goto(c, "taken")
    /\ UNCHANGED <<symbol, policy, parts, looked, start, todo, cacheVars, clock>>

Release(c) == holder' = [holder EXCEPT ![Stripe(c)] = Nobody]

\* Mutant of LookAgain: what was missing before the stripe is fetched.
LookAgain_NotAgain(c) ==
    /\ phase[c] = "taken"
    /\ todo' = [todo EXCEPT ![c] = Only(policy[c], {p \in Providers : parts[c][p] = NoTime})]
    /\ Goto(c, "next") /\ UNCHANGED holder
    /\ start' = [start EXCEPT ![c] = clock]
    /\ UNCHANGED <<symbol, policy, parts, looked, cacheVars, clock>>

\* The second lookup, under the stripe: whoever waited may find it all fetched.
LookAgain(c) ==
    /\ phase[c] = "taken"
    /\ start' = [start EXCEPT ![c] = clock]
    /\ LookupAt(c, clock)
    /\ todo' = [todo EXCEPT ![c] = Missing(c)]
    /\ IF todo'[c] = <<>> THEN Goto(c, "returned") /\ Release(c)
                          ELSE Goto(c, "next") /\ UNCHANGED holder
    /\ UNCHANGED <<symbol, policy, registry, clock>>

-----------------------------------------------------------------------------
(* _fetch_provider, for the first provider still to be fetched.            *)

Provider(c) == Head(todo[c])
CanStart(c) == clock - start[c] < StartBudget

Moves(c, from, next) ==
    /\ phase[c] = from /\ Goto(c, next)
    /\ UNCHANGED <<symbol, policy, parts, looked, start, todo, holder, cache, clock>>

RegistryLive(p) == registry[p] # NoTime /\ clock < registry[p] + RegistryTTL

\* _get_registry purges the registries of all providers.
PurgeRegistry == registry' = [p \in Providers |-> IF RegistryLive(p) THEN registry[p] ELSE NoTime]

GetRegistry(c) ==
    /\ Moves(c, "next", IF RegistryLive(Provider(c)) THEN "resolve"
                        ELSE IF CanStart(c) THEN "registry" ELSE "put")
    /\ PurgeRegistry

\* _fetch_registry: a registry that cannot be had leaves the provider unavailable.
RegistryReply(c, ok) ==
    /\ Moves(c, "registry", IF ok THEN "resolve" ELSE "put")
    /\ IF ok THEN registry' = [p \in Providers |->
                        IF p = Provider(c) THEN clock
                        ELSE IF RegistryLive(p) THEN registry[p] ELSE NoTime]
             ELSE UNCHANGED registry

\* The instrument is not supported, or its funding is asked for if there is time.
Resolve(c, supported) ==
    /\ Moves(c, "resolve", IF ~supported THEN "put"
                           ELSE IF CanStart(c) THEN "funding" ELSE "funded")
    /\ UNCHANGED registry

\* An answer, good or bad, or a skipped request: the next resource is asked for.
FundingReply(c) == Moves(c, "funding", "funded") /\ UNCHANGED registry

AskInterest(c) ==
    Moves(c, "funded", IF CanStart(c) THEN "interest" ELSE "put") /\ UNCHANGED registry

InterestReply(c) == Moves(c, "interest", "put") /\ UNCHANGED registry

\* Mutant of Put: nothing makes room.
Put_Unbounded(entries, p, s, now) ==
    Append(Without(Purged(entries, now), p, s), [provider |-> p, symbol |-> s, put |-> now])

\* _put_symbol: the least recently used entries make room.
Put(entries, p, s, now) ==
    LET all == Append(Without(Purged(entries, now), p, s),
                      [provider |-> p, symbol |-> s, put |-> now])
    IN  IF Len(all) > MaxEntries THEN SubSeq(all, Len(all) - MaxEntries + 1, Len(all)) ELSE all

\* Mutant of PutSymbol: the part is read back from the cache when the bundle is built.
PutSymbol_ReadBack(c) ==
    /\ phase[c] = "put"
    /\ cache' = Put(cache, Provider(c), symbol[c], clock)
    /\ todo' = [todo EXCEPT ![c] = Tail(@)]
    /\ IF todo'[c] = <<>>
       THEN /\ Goto(c, "returned") /\ Release(c)
            /\ parts' = [parts EXCEPT ![c] = Found(cache', symbol[c], policy[c])]
       ELSE Goto(c, "next") /\ UNCHANGED <<holder, parts>>
    /\ UNCHANGED <<symbol, policy, looked, start, registry, clock>>

\* The raw bundle is cached and kept; the last one ends the call.
PutSymbol(c) ==
    /\ phase[c] = "put"
    /\ todo' = [todo EXCEPT ![c] = Tail(@)]
    /\ parts' = [parts EXCEPT ![c][Provider(c)] = clock]
    /\ cache' = Put(cache, Provider(c), symbol[c], clock)
    /\ IF todo'[c] = <<>> THEN Goto(c, "returned") /\ Release(c)
                          ELSE Goto(c, "next") /\ UNCHANGED holder
    /\ UNCHANGED <<symbol, policy, looked, start, registry, clock>>

\* Mutant of Raises: the stripe is released only where the bundle is returned.
Raises_KeepsStripe(c) ==
    /\ phase[c] = "resolve"
    /\ Goto(c, "raised")
    /\ UNCHANGED <<symbol, policy, parts, looked, start, todo, holder, cacheVars, clock>>

\* The resolution of an instrument is the one step that may raise; what has been put
\* stays, and the with statement releases the stripe.
Raises(c) ==
    /\ phase[c] = "resolve"
    /\ Goto(c, "raised") /\ Release(c)
    /\ UNCHANGED <<symbol, policy, parts, looked, start, todo, cacheVars, clock>>

-----------------------------------------------------------------------------
Tick ==
    /\ clock < MaxTime
    /\ clock' = clock + 1
    /\ UNCHANGED <<callVars, holder, cacheVars>>

CallStep(c) ==
    \/ Look(c) \/ TakeStripe(c) \/ LookAgain(c) \/ GetRegistry(c)
    \/ \E ok \in BOOLEAN : RegistryReply(c, ok) \/ Resolve(c, ok)
    \/ FundingReply(c) \/ AskInterest(c) \/ InterestReply(c) \/ PutSymbol(c)
    \/ Raises(c)

Next == (\E c \in Callers : CallStep(c)) \/ Tick

Spec == Init /\ [][Next]_vars

\* Threads run, and every request ends by an answer or by its timeout.
FairSpec == Spec /\ \A c \in Callers : WF_vars(CallStep(c))

-----------------------------------------------------------------------------
\* The shape of the state, the bound of the cache, and who holds which stripe: exactly
\* the calls that are fetching under it, so that no ending of a call keeps it.
CacheTypeOK ==
    /\ phase \in [Callers -> Phases]
    /\ symbol \in [Callers -> Symbols] /\ policy \in [Callers -> Policies]
    /\ parts \in [Callers -> [Providers -> 0 .. MaxTime \cup {NoTime}]]
    /\ looked \in [Callers -> 0 .. MaxTime] /\ start \in [Callers -> 0 .. MaxTime]
    /\ todo \in [Callers -> Seq(Providers)]
    /\ holder \in [Stripes -> Callers \cup {Nobody}]
    /\ cache \in Seq(Entry) /\ Len(cache) <= MaxEntries
    /\ registry \in [Providers -> 0 .. MaxTime \cup {NoTime}]
    /\ clock \in 0 .. MaxTime
    /\ \A c \in Callers, l \in Stripes :
          holder[l] = c <=> phase[c] \in Fetching \cup {"taken"} /\ l = Stripe(c)

\* A call that returns has a part for every provider it asked for, also where its
\* entries have been evicted or have expired meanwhile; and nothing that had expired
\* when the call last looked is part of it, however long it waited for the stripe.
BundleIsSound ==
    \A c \in Callers :
        /\ phase[c] = "returned" => \A p \in ToSet(policy[c]) : parts[c][p] # NoTime
        /\ \A p \in Providers :
              phase[c] # "idle" /\ parts[c][p] # NoTime => looked[c] < parts[c][p] + TTL

\* What is cached and live is not fetched again: no put replaces a live entry.
LiveIsKept(p, s) ==
    \A e \in Find(cache, p, s), n \in Find(cache', p, s) :
        Live(e.put, clock) => n.put = e.put
NothingIsFetchedTwice == [][\A p \in Providers, s \in Symbols : LiveIsKept(p, s)]_vars

\* Every call ends, whoever holds its stripe.
EveryCallEnds == \A c \in Callers : <>(phase[c] \in {"returned", "raised"})
=============================================================================
