SPECIFICATION Spec
CONSTANTS
    Setups <- MCSetups
    Entries = {"atomic", "plain", "stick"}
    Removable = {"plain", "stick"}
    Deploys <- MCDeploys
    DeployDefault <- MCDefault
    Snaps <- MCSnaps
    None = None
    Plugs = 2
INVARIANTS MeantBoots SnapshotAlone ScreenTells
PROPERTY UnattendedBoots
CHECK_DEADLOCK FALSE
