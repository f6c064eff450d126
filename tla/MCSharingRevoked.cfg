SPECIFICATION Spec
CONSTANT
    Platforms = {"systemd", "launchd"}
PROPERTY
    RevokedAgentStays
