------------------------------ MODULE MCKeymap ------------------------------
EXTENDS Keymap

\* A small layout in the style of pc+us(intl): keys 1 to 9 are real ones, 12
\* is the fallback for level three, 13 and 14 are spare.
Type(modifiers, lv, keep) == [mods |-> modifiers, levels |-> lv, preserve |-> keep]
Two(sets) == [m \in sets |-> 2]
TypeTable ==
  [ONE_LEVEL |-> Type({}, <<>>, <<>>),
   TWO_LEVEL |-> Type({"Shift"}, Two({{"Shift"}}), <<>>),
   ALPHABETIC |-> Type({"Shift", "Lock"}, Two({{"Shift"}, {"Lock"}}), <<>>),
   KEYPAD |-> Type({"Shift", "Num"}, Two({{"Shift"}, {"Num"}}), <<>>),
   FOUR_LEVEL_SEMIALPHABETIC |-> Type({"Shift", "Lock", "Level3"},
     [m \in (SUBSET {"Shift", "Lock", "Level3"}) \ {{}, {"Shift", "Lock"}} |->
        IF "Level3" \notin m THEN 2 ELSE IF "Shift" \in m THEN 4 ELSE 3],
     [m \in {{"Lock", "Level3"}, {"Shift", "Lock", "Level3"}} |-> {"Lock"}])]

Group(type, syms, act) == [type |-> type, syms |-> syms, acts |-> [i \in DOMAIN syms |-> act]]
Key(groups, modmap) ==
  [groups |-> groups, oor |-> "clamp", to |-> 0, modmap |-> modmap, named |-> FALSE]
Set(m) == [kind |-> "set", mods |-> m, useModMap |-> FALSE]
Lock(m) == [kind |-> "lock", mods |-> m, useModMap |-> FALSE]
NextGroup == [kind |-> "group", mods |-> {}, useModMap |-> FALSE]
ByModMap == [kind |-> "set", mods |-> {}, useModMap |-> TRUE]

MCKeys == (1..9) \cup (12..14)
LayoutTable == [k \in MCKeys |->
  CASE k = 1 -> Key(<<Group("ONE_LEVEL", <<"Shift_L">>, ByModMap)>>, {"Shift"})
    [] k = 2 -> Key(<<Group("ONE_LEVEL", <<"ISO_Next_Group">>, NextGroup)>>, {})
    [] k = 4 -> Key(<<Group("ONE_LEVEL", <<"Caps_Lock">>, Lock({"Lock"}))>>, {"Lock"})
    [] k = 5 -> Key(<<Group("ONE_LEVEL", <<"Num_Lock">>, Lock({"Num"}))>>, {"Num"})
    [] k = 6 -> Key(<<Group("FOUR_LEVEL_SEMIALPHABETIC", <<"a", "A", "at", "eacute">>, NoAction),
                      Group("TWO_LEVEL", <<"zhe", "Zhe">>, NoAction)>>, {})
    [] k = 7 -> Key(<<Group("KEYPAD", <<"KP_End", "KP_1">>, NoAction)>>, {})
    [] k = 8 -> Key(<<Group("TWO_LEVEL", <<"1", "exclam">>, NoAction)>>, {})
    [] k = 9 -> Key(<<Group("TWO_LEVEL", <<"Tab", "ISO_Left_Tab">>, NoAction)>>, {})
    [] k \in {3, 12} -> Key(<<Group("ONE_LEVEL", <<"ISO_Level3_Shift">>, Set({"Level3"}))>>, {})
    [] k \in {13, 14} -> Key(<<>>, {})]

MCAlt == {<<"KP_1", "1">>, <<"KP_End", "End">>, <<"KP_Tab", "Tab">>, <<"ISO_Level3_Shift", "Mode_switch">>}
Pairs == {<<"a", "A">>, <<"eacute", "Eacute">>, <<"zhe", "Zhe">>, <<"lambda", "Lambda">>}
Single == {"at", "1", "exclam", "KP_End", "KP_1", "End", "Tab", "ISO_Left_Tab", "client", "Shift_L",
           "ISO_Level3_Shift", "Caps_Lock", "Num_Lock", "ISO_Next_Group"}
Case(from, to) ==
  [s \in Single \cup UNION {{p[1], p[2]} : p \in Pairs} |->
     IF \E p \in Pairs : p[from] = s THEN (CHOOSE p \in Pairs : p[from] = s)[to] ELSE s]
UpperTable == Case(1, 2)
LowerTable == Case(2, 1)

\* The layout is one of those the theorems are about.
ASSUME LayoutIsOrdinary ==
  OrdinaryLayout /\ SparesGiveCharacters /\ ShiftsAreAlone /\ CharactersAreSeen

MCKeyType == TypeTable
MCBaseMap == LayoutTable
MCUpper == UpperTable
MCLower == LowerTable
=============================================================================
