SPECIFICATION Spec
CONSTANTS
  Slash = 3
  Percent = 2
  Hex = 4
  Escaped <- MCEscaped
  Continuation <- MCContinuation
  MaxSlots = 2
  Settings <- MCSettings
  Extensions <- MCExtensions
  Archives <- MCArchives
  Files <- MCFiles
  Searches <- MCSearches
  Keys <- MCKeys
  Unset = Unset
  Malformed = Malformed
  NotFound = NotFound
  Panics = Panics
  NoKey = NoKey
  NoAnswer = NoAnswer
INVARIANT KeyTypeOK RoutedToLongest ListingMatchesSearch KeysComeBack
