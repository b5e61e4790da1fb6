SPECIFICATION Spec
CONSTANTS
  ann = ann  phone = phone
  Clients = {c1}
  Accounts = {ann}
  Devices = {phone}
  AnyDevice = AnyDevice
  AccountOf <- OwnAccount
  DeviceOf <- OwnDevice
  Apps = {a1}
  NoApp = NoApp
  Handlers = {h1, h2}
  SendBuffer = 1
  Queue = 1
  MaxCalls = 3
SYMMETRY Symmetric
INVARIANTS SendsToOpen LeaversHearNothingLater
CHECK_DEADLOCK FALSE
