---------------------------- MODULE MCAvalonGame ----------------------------
(* Small instances of AvalonGame, with the views of its players.           *)
EXTENDS AvalonView

SixRoles == <<"Merlin", "Assassin", "LoyalServant", "Percival", "Morgana",
              "LoyalServant">>
\* Nobody is the Assassin: generateRoles refuses this deal, resolveQuest has a
\* branch for it.
SevenRoles == <<"Merlin", "Mordred", "LoyalServant", "Percival", "Morgana",
                "LoyalServant", "Oberon">>

Seated(roles) == [p \in Players |-> roles[p + 1]]
MCSixRoles == Seated(SixRoles)
MCSevenRoles == Seated(SevenRoles)

Both == {"approve", "reject"}
\* The last two votes decide whether a team passes.
PivotVotes ==
  [p \in Players |-> IF p < N \div 2 THEN {"approve"}
                     ELSE IF p < N \div 2 + 2 THEN Both ELSE {"reject"}]
AllYes == [p \in Players |-> {"approve"}]
EvilTicket == [p \in Players |-> IF p \in Good THEN {"success"} ELSE {"fail"}]
AnyTicket == [p \in Players |-> {"success", "fail"}]

\* The good players alone, teams with one evil player, one with two, a team
\* with a repeated member, a team with a stranger.
SixProposals ==
  {<<0, 2>>, <<0, 1>>, <<0, 2, 3>>, <<0, 1, 4>>, <<0, 1, 2, 3>>,
   <<1, 1>>, <<0, 6>>}
SevenProposals == {<<0, 1>>, <<0, 2, 3>>, <<0, 1, 4>>, <<0, 1, 4, 2>>}
=============================================================================
