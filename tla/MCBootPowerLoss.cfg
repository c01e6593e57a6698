\* One power loss during the first boots.
SPECIFICATION Spec
CONSTANTS
  Script <- MCScript
  Position <- MCPosition
  Archived = {"10_disable_services"}
  Committing = {"10_disable_services", "15_odhcpd"}
  Failing = {"01_custom"}
  MaxFaults = 1
INVARIANTS
  Migrated
