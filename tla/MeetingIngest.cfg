SPECIFICATION Spec
CONSTANTS
    Meeting <- MCMeeting
    TDoc <- MCTDoc
    Artifact <- MCArtifact
    Manifest <- MCManifest
    Fault = {"commit"}
    MaxRuns = 2
INVARIANTS Dated Accounted GraphFollowsRows RevisionWalks
CHECK_DEADLOCK FALSE
