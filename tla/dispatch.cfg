SPECIFICATION Spec
CONSTANTS
    alice = alice
    bob = bob
    name = name
    site = site
    repo = repo
    NoCommand = NoCommand
    NoName = NoName
    NoRow = NoRow
    Actor <- MCActor
    Verb <- MCVerb
    Target <- MCTarget
    Sets <- MCSets
    Whom <- MCWhom
    Relays = {r1, r2}
    Commands = {"create", "delete", "status", "name", "site", "repo", "repo2", "update", "add", "leave", "sync", "bad_account", "bad_profile", "bad_maintainer", "bad_repo"}
    Actors = {alice, bob}
    Names = {repo}
    Fields = {name, site}
    MaxCommands = 3
    MaxFaults = 1
INVARIANT AppliedOnce
INVARIANT OutcomeIsTrue
INVARIANT OwnerIsMaintainer
INVARIANT StrandedByFaults
PROPERTY LostOnlyByOverlap
SYMMETRY RelaySymmetry
