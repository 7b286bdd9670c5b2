SPECIFICATION GatheringSpec
CONSTANTS
 Users = {a, b, d}
 NoUser = NoUser
 Calls = {c1, c2}
 MaxAsks = 3
 MaxFaults = 2
 Combatants = {h, a, b, d}
 NoCombatant = NoCombatant
 Creator = h
 SquadSize = 2
 SquadCalls = {c1, c2}
 MaxVersion = 4
 MaxUpsets = 1
 MaxTimers = 0
INVARIANTS
 GatheringTypeOK
 ClaimedOnce
 OneSeatPerAsk
 EntriesAreWatched
 ApprovalCoversRoster
 AgreementStartsCountdown
 TeamsPromised
SYMMETRY Symmetric
CHECK_DEADLOCK FALSE
