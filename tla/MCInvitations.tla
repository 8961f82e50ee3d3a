----------------------------- MODULE MCInvitations -----------------------------
(* An instance of Invitations small enough for TLC. *)
EXTENDS Invitations

CONSTANTS alice, bob, carol, phone, laptop, deal, team, job

\* Bob and Carol have used the same phone; Carol also has a laptop.
MCGuests == {<<bob, phone>>, <<carol, phone>>, <<carol, laptop>>}

MCKindOf == deal :> "private" @@ team :> "group" @@ job :> "job"

MCInvited ==
  deal :> {<<bob, phone>>, <<carol, laptop>>} @@ job :> {<<bob, phone>>}
    @@ team :> {<<carol, phone>>, <<carol, laptop>>}

\* Two of the rooms, whichever.
TwoRooms == Init /\ [][Next /\ Cardinality(made') <= 2]_vars
=============================================================================
