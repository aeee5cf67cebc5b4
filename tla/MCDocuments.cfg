CONSTANTS
  Uri = {top, notes}
  Indexable = {top}
  Text <- MCText
  FileText <- MCFileText
  StrayChange <- MCStrayChange
  None = None
  MaxOpen = 1
  MaxVersion = 2
  MaxChanges = 2
  MaxLength = 1
  MaxWatched = 2
SPECIFICATION Spec
INVARIANTS
  StoreIsEditors
  WorkspaceFollowsStore
  WorkspaceFollowsDisk
  OutlineIsCurrent
