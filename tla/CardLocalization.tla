-------------------------- MODULE CardLocalization --------------------------
(***************************************************************************)
(* The translation of a deck's cards while a page is rendered: a bounded   *)
(* pool of workers that draw cards from one cursor, and the cache of       *)
(* translations they share over the renders.  A text stands for the prose  *)
(* of a card: its language and how many prompts ("what could be wrong") it *)
(* lists.  English is what the card was stored with.                       *)
(***************************************************************************)
EXTENDS Integers, Sequences, FiniteSets

CONSTANTS
    Fingerprints,    \* fingerprints of cards
    Cached,          \* fingerprints that may have been translated before
    Decks,           \* decks that are rendered
    MaxPrompts,      \* bound: prompts on a card
    Limit,           \* LOCALIZE_CONCURRENCY
    MaxRenders       \* bound: renders in the other language

Counts == 0 .. MaxPrompts
Workers == 1 .. Limit

Prose == [fp : Fingerprints, prompts : Counts]

ASSUME LocalizationAssumption ==
    /\ MaxPrompts \in Nat /\ Limit \in Nat \ {0} /\ MaxRenders \in Nat
    /\ Decks \subseteq Seq(Prose) /\ Cached \subseteq Fingerprints

VARIABLES
    cache,    \* cache[f]: prompts of the stored translation, or NoRow or Malformed
    pool,     \* the pass under way, or the last one
    renders   \* passes so far

localizationVars == <<cache, pool, renders>>

NoRow == -1
Malformed == -2
Rows == Counts \cup {NoRow, Malformed}

Stages == {"get", "translate", "save", "rest"}
Item(i, stage) == [index |-> i, stage |-> stage]
Rest == Item(0, "rest")

Pending == [lang |-> "none", prompts |-> 0]
English(card) == [lang |-> "en", prompts |-> card.prompts]
Translated(n) == [lang |-> "other", prompts |-> n]
Texts == [lang : {"none", "en", "other"}, prompts : Counts]

-----------------------------------------------------------------------------
\* Each of the workers draws its first card before it waits for anything.
Started(cards) ==
    LET first == 1 .. (IF Limit < Len(cards) THEN Limit ELSE Len(cards))
    IN [cards |-> cards, cursor |-> Cardinality(first) + 1,
        hand |-> [w \in Workers |-> IF w \in first THEN Item(w, "get") ELSE Rest],
        out |-> [i \in DOMAIN cards |-> Pending]]

Busy(p) == {w \in DOMAIN p.hand : p.hand[w].stage # "rest"}
PoolDone == Busy(pool) = {}

CardOf(w) == pool.cards[pool.hand[w].index]

\* Mutant: the next card is the one behind the worker's own.
FinishedByOwnIndex(p, w, text) ==
    LET next == p.hand[w].index + 1
    IN [p EXCEPT !.out[p.hand[w].index] = text,
                 !.hand[w] = IF next <= Len(p.cards) THEN Item(next, "get") ELSE Rest,
                 !.cursor = @ + 1]

\* A worker hands in its card and draws the next one.
Finished(p, w, text) ==
    [p EXCEPT !.out[p.hand[w].index] = text,
              !.hand[w] = IF p.cursor <= Len(p.cards) THEN Item(p.cursor, "get") ELSE Rest,
              !.cursor = @ + 1]

At(w, stage) == w \in Busy(pool) /\ pool.hand[w].stage = stage

Goto(w, stage) == pool' = [pool EXCEPT !.hand[w].stage = stage]
HandIn(w, text) == pool' = Finished(pool, w, text)

\* Mutant: any stored translation will do.
preservesSuggestionCountAlways(card, n) == TRUE

preservesSuggestionCount(card, n) == n = card.prompts

\* The cache: a failed read or a translation that does not pair with the
\* card's prompts gives English, a malformed row counts as a miss.
ReadCache(w) ==
    /\ At(w, "get")
    /\ LET row == cache[CardOf(w).fp] IN
          \/ HandIn(w, English(CardOf(w)))
          \/ row \in {NoRow, Malformed} /\ Goto(w, "translate")
          \/ /\ row \in Counts
             /\ HandIn(w, IF preservesSuggestionCount(CardOf(w), row)
                          THEN Translated(row) ELSE English(CardOf(w)))
    /\ UNCHANGED cache

\* The provider fails, or answers with some number of prompts.
Translate(w) ==
    /\ At(w, "translate")
    /\ \/ HandIn(w, English(CardOf(w)))
       \/ \E n \in Counts :
             IF preservesSuggestionCount(CardOf(w), n)
             THEN Goto(w, "save")
             ELSE HandIn(w, English(CardOf(w)))
    /\ UNCHANGED cache

\* The upsert may fail; the translation is used all the same.
SaveTranslation(w) ==
    /\ At(w, "save")
    /\ HandIn(w, Translated(CardOf(w).prompts))
    /\ \/ cache' = [cache EXCEPT ![CardOf(w).fp] = CardOf(w).prompts]
       \/ UNCHANGED cache

\* Without a provider the deck stays in English, and no pass starts.  A render
\* starts when the one before it is over.
LocalizeCards ==
    /\ PoolDone /\ renders < MaxRenders
    /\ renders' = renders + 1
    /\ \E cards \in Decks : pool' = Started(cards)
    /\ UNCHANGED cache

\* Some cards may have been translated before, for other prompts as well.
LocalizationInit ==
    /\ cache \in {c \in [Fingerprints -> Rows] : \A f \in Fingerprints \ Cached : c[f] = NoRow}
    /\ pool = Started(<< >>)
    /\ renders = 0

LocalizationNext ==
    \/ LocalizeCards
    \/ /\ \E w \in DOMAIN pool.hand : ReadCache(w) \/ Translate(w) \/ SaveTranslation(w)
       /\ UNCHANGED renders

LocalizationSpec == LocalizationInit /\ [][LocalizationNext]_localizationVars

-----------------------------------------------------------------------------
LocalizationTypeOK ==
    /\ cache \in [Fingerprints -> Rows]
    /\ renders \in 0 .. MaxRenders
    /\ pool \in [cards : Seq(Prose), cursor : Nat \ {0},
                 hand : [Workers -> [index : Nat, stage : Stages]], out : Seq(Texts)]
    /\ Len(pool.out) = Len(pool.cards)

\* "The next index": every card is drawn by exactly one worker and handed in
\* once (mapWithConcurrency's shared cursor).
EveryCardOnce ==
    /\ \A v, w \in Busy(pool) : pool.hand[v].index = pool.hand[w].index => v = w
    /\ \A i \in DOMAIN pool.cards :
          pool.out[i] = Pending <=> \/ i >= pool.cursor
                                    \/ \E w \in Busy(pool) : pool.hand[w].index = i

\* "never silently lose a risk prompt": a card handed in lists as many prompts
\* as the card that was stored, whatever the cache and the provider return.
NoPromptLost ==
    \A i \in DOMAIN pool.cards :
        pool.out[i] # Pending => pool.out[i].prompts = pool.cards[i].prompts
=============================================================================
