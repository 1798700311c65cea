------------------------------- MODULE MCPlay -------------------------------
(***************************************************************************)
(* Small worlds for TLC.  Hit points, thresholds and dice are scaled down  *)
(* so that death, revival, a flight at 30%, a kill that skips a level and  *)
(* a full pack all happen within a few commands.                           *)
(***************************************************************************)
EXTENDS Play

\* A hall, a den with two enemies, and a vault behind a locked door and a
\* hidden one.  The hall has a way back from the den only by the stairs.
MCRooms == {"hall", "den", "vault"}
MCExits ==
  [hall  |-> {[to |-> "den", type |-> "open"], [to |-> "vault", type |-> "locked"]},
   den   |-> {[to |-> "hall", type |-> "stairway"], [to |-> "vault", type |-> "hidden"]},
   vault |-> {[to |-> "hall", type |-> "open"]}]

\* A wolf is cautious: at 1 of 4 hit points it runs.
MCTemplates == {"rat", "wolf"}
MCEnemyHP == [rat |-> 2, wolf |-> 4]
MCEnemyDice == [rat |-> {1}, wolf |-> {2}]
MCCautious == {"wolf"}
WolfAndRat == [hall |-> <<>>, den |-> <<"wolf", "rat">>, vault |-> <<>>]
TwoRats == [hall |-> <<>>, den |-> <<"rat", "rat">>, vault |-> <<>>]
OneWolf == [hall |-> <<>>, den |-> <<"wolf">>, vault |-> <<>>]

MCItems == {"potion", "mail", "sword"}
MCItemType == [potion |-> "consumable", mail |-> "armor", sword |-> "weapon"]
MCItemWeight == [potion |-> 5, mail |-> 30, sword |-> 20]
\* The store: a potion and a mail that cannot be carried together.
HeavyWeight == [MCItemWeight EXCEPT !["potion"] = 25]
MCItemDice == [potion |-> {3}, mail |-> {}, sword |-> {2, 3}]
MCItemDefense == [potion |-> 0, mail |-> 1, sword |-> 0]
Seed(hall, den) ==
  [r \in MCRooms |-> [i \in MCItems |->
     IF r = "hall" THEN hall[i] ELSE IF r = "den" THEN den[i] ELSE 0]]
None == [potion |-> 0, mail |-> 0, sword |-> 0]
OnePotion == Seed([None EXCEPT !["potion"] = 1], None)
PotionAndMail == Seed([None EXCEPT !["potion"] = 1, !["mail"] = 1], None)
PotionAndSword == Seed([None EXCEPT !["potion"] = 1], [None EXCEPT !["sword"] = 1])
NoItems == Seed(None, None)

MCSpells == {"bolt", "mend"}
MCSpellCost == [bolt |-> 2, mend |-> 1]
MCSpellEffect == [bolt |-> "damage", mend |-> "heal"]
MCSpellDice == [bolt |-> {3}, mend |-> {0, 2}]

MCXPThreshold == <<0, 2, 6>>
MCThreshold == [l \in 2..3 |-> MCXPThreshold[l]]
=============================================================================
