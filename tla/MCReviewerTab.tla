---------------------------- MODULE MCReviewerTab ----------------------------
(***************************************************************************)
(* ReviewerTab on a pull request with two heads: the two cards of the      *)
(* first are twins, and the second has a card with their fingerprint at    *)
(* another line.  An account is spelled in two ways, and decks are         *)
(* translated with two workers.                                            *)
(***************************************************************************)
EXTENDS ReviewerTab

Card(f, line) == [fp |-> f, line |-> line]
MCCardsOf == << <<Card("a", 1), Card("a", 3)>>, <<Card("a", 2), Card("b", Deletion)>> >>

Text(f, n) == [fp |-> f, prompts |-> n]
MCDecks == {<<Text("a", 1), Text("b", 0), Text("c", 1)>>, <<Text("c", 1), Text("a", 0)>>}

Account(i, s) == [id |-> i, spelling |-> s]
MCAccounts == {Account("me", "me"), Account("me", "Me"), Account("org", "org")}
MCMemberships == {Account("org", "org")}
MCLogin == Account("me", "Me")
=============================================================================
