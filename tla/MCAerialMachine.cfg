SPECIFICATION MachineSpec
INVARIANTS HarnessesCover NoLiveAfterRevoke
PROPERTIES LatchClearsDisarmed RefinesAuthority
