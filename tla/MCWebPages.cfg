SPECIFICATION AppsSpec
CONSTANTS
  Pages = {"hello", "require-angular", "event", "watch", "manual", "labels"}
  Hello = hello
  Texts = {hello, a, b}
  Ttl = 10
  Unset = Unset
  Touched = {"v1", "v2", "label21"}
  Widths = {4, 80}
  Lengths = {11, 12}
INVARIANTS
  ConfiguredBeforeFetch
  BootFindsModule
  BoundOnce
  ShowsMessageAndPrevious
  RelativeLabelsWhole
  ViewIsClosed
PROPERTIES
  ComesUp
  EndsDisplayed
\* A page that is up, or broken, is at rest.
CHECK_DEADLOCK FALSE
