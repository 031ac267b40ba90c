SPECIFICATION Spec
CONSTANTS
  app = app
  hung = hung
  daemon = daemon
  Procs = {app, hung, daemon}
  FuseDaemon = daemon
  Nerve <- MCNerve
  Devices <- MCDevices
  Layouts <- MCLayouts
  Supported = {"vfat"}
  MaxFaults = 2
INVARIANTS MountsMatch CheckedOffline NoOrphanedViews
