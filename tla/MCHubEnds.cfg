SPECIFICATION FairSpec
CONSTANTS
  ann = ann  phone = phone
  Clients = {c1}
  Accounts = {ann}
  Devices = {phone}
  AnyDevice = AnyDevice
  AccountOf <- OwnAccount
  DeviceOf <- OwnDevice
  Apps = {a1}
  NoApp = NoApp
  Handlers = {h1}
  SendBuffer = 1
  Queue = 1
  MaxCalls = 2
PROPERTIES BroadcastsEnd SocketsEnd DisconnectReaches
CHECK_DEADLOCK FALSE
