------------------------------- MODULE MCAccess -------------------------------
\* An owner, an administrator of one salon, and the account a registration creates,
\* whose address may change.
EXTENDS Access, TLC

CONSTANTS boss, aide, fresh, s1, s2

MCUids == {boss, aide, fresh}
MCSalons == {s1, s2}
MCEmails == {"boss", "aide", "new", "other"}
MCFirstEmails == [u \in MCUids |-> CASE u = boss -> "boss" [] u = aide -> "aide" [] OTHER -> NoEmail]

Grant(role, custom, permissions, salons) ==
    [role |-> role, custom |-> custom, permissions |-> permissions, salons |-> salons]
Owner == Grant("OWNER", FALSE, {}, {})
LocalAdmin == Grant("ADMIN", TRUE, {"access.manage", "chart.write"}, {s1})
Admin == [LocalAdmin EXCEPT !.salons = {}]

MCSymmetry == Permutations(Invites) \cup Permutations(Workers)
MCGrants == {Owner, LocalAdmin, Admin}
MCFirstMembers == [u \in MCUids |->
    [status |-> IF u \in {boss, aide} THEN "ACTIVE" ELSE "NONE",
     grant |-> IF u = boss THEN Owner ELSE LocalAdmin]]
=============================================================================
