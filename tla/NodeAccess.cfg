SPECIFICATION Spec
CONSTANTS
  Threads = {t1}
  OctetBase = 16
  Refusals = {1, 4, 9}
  Values <- MCValues
  Rooms = {1, 2, 3, 4}
  Odd = {"hw_magic"}
  MAXIMUM_APP_CONFIG_SIZE = 3
  MAXIMUM_CDC_ITEM_PAYLOAD_SIZE = 2
  MAXIMUM_NUMBER_OF_MULTICAST_GROUPS = 2
  RESERVED_CHANNELS_MAX_NUM_BYTES = 2
  MaxChanged = 1
PROPERTY ImplementsStore
